---- MODULE Spec2Model ----
(***************************************************************************)
(* Verification model of the blog_agent content pipeline                   *)
(* (python-workspace/apps/server/src/blog_agent).                          *)
(*                                                                         *)
(* Specifications:                                                         *)
(*   Spec         BlogWorkflow runs (extract -> extend -> review, prompt   *)
(*                analysis in parallel, join in edit_step, finalize).      *)
(*   SpecService  BlogService.process_conversation, the hand-written stage *)
(*                sequence the gRPC entry point calls.                     *)
(*   SpecAnalyzer PromptAnalyzer.analyze over bounded conversations.       *)
(*   SpecMemory   RobustFactExtractionMemoryBlock / ConversationMemory-    *)
(*                Manager: from_messages, put, flush.                      *)
(*   SpecStages   one stage method (extract, extend, review, edit) called  *)
(*                on a bounded input with a bounded LLM / provider fixture.*)
(***************************************************************************)
EXTENDS Integers, Sequences, FiniteSets, TLC

VARIABLES
    \* ---- BlogWorkflow runs (one llama_index Context per run) ----
    status,      \* run -> "idle" | "running" | "done" | "failed" | "timeout"
    messages,    \* run -> the message list of its BlogWorkflowStartEvent
    pending,     \* run -> set of events emitted and not yet handled by a step
    buffer,      \* context -> event type -> events held by ctx.collect_events
    arrived,     \* run -> sequence of event types in the order edit_step got them
    emitted,     \* run -> set of the events the run's steps have returned
    joined,      \* run -> the events ctx.collect_events returned (<<>> before)
    editIn,      \* run -> the event handed to editor.edit (None before)
    editFixture, \* run -> the editor's LLM fixture used by that call
    result,      \* run -> the BlogWorkflowStopEvent returned to the caller (None)
    cause,       \* run -> what made the run fail ("" while it has not failed)
    incidents,   \* run -> set of the LLM / provider calls that failed or missed
    \* ---- BlogService.process_conversation ----
    svc,
    \* ---- PromptAnalyzer.analyze ----
    pa,
    \* ---- memory manager ----
    mem,
    \* ---- one stage method called on its own ----
    st

wfVars == <<status, messages, pending, buffer, arrived, emitted, joined,
            editIn, editFixture, result, cause, incidents>>
vars == <<wfVars, svc, pa, mem, st>>

None == [type |-> "None"]

(***************************************************************************)
(* Messages.  A message content is abstracted to what the code reads of    *)
(* it: its stripped length, whether it contains a greeting/farewell        *)
(* pattern, and its text (an identifier).                                  *)
(***************************************************************************)
Roles == {"user", "assistant"}

Contents ==
    { [text |-> "hi",     len |-> 2,   noise |-> TRUE],
      [text |-> "thanks", len |-> 14,  noise |-> TRUE],
      [text |-> "q12",    len |-> 12,  noise |-> FALSE],
      [text |-> "longA",  len |-> 120, noise |-> FALSE],
      [text |-> "longB",  len |-> 120, noise |-> FALSE] }

Message == [role : Roles, content : Contents]

Msg(r, t) == [role |-> r, content |-> CHOOSE c \in Contents : c.text = t]

RECURSIVE SumLen(_)
SumLen(ms) == IF ms = <<>> THEN 0 ELSE Head(ms).content.len + SumLen(Tail(ms))

Range(s) == { s[i] : i \in DOMAIN s }

Take(s, n) == SubSeq(s, 1, IF Len(s) < n THEN Len(s) ELSE n)

(***************************************************************************)
(* ContentExtractor (workflows/extractor.py).                              *)
(* An extractor fixture fixes what each LLM call of one extract() does:    *)
(*   substantive : answer of the YES/NO substantive check, or "raise"      *)
(*   structured  : astructured_predict: "ok", "raise", or "unsupported"    *)
(*                 (the LLM object has no astructured_predict)             *)
(*   analysis    : the ConversationAnalysis a successful structured call   *)
(*                 returns (list lengths and substantive_score)            *)
(*   insights, concepts : the two text completions of the fallback path:   *)
(*                 "raise", or the number of usable lines returned         *)
(***************************************************************************)
MinMessageLen == 10
NoisePatternMaxLen == 30
MinSubstantiveTotal == 50
HeuristicSubstantiveTotal == 200
MaxInsights == 5
MaxConcepts == 10
LowScore == 3

filter_noise(msgs) ==
    SelectSeq(msgs, LAMBDA m :
        /\ ~(m.content.len < MinMessageLen)
        /\ ~(m.content.noise /\ m.content.len < NoisePatternMaxLen))

\* The LLM is asked only when the quick heuristic does not already decide.
substantive_llm_called(filtered) ==
    filtered # <<>> /\ SumLen(filtered) >= MinSubstantiveTotal

has_substantive_content(filtered, fx) ==
    IF filtered = <<>> THEN FALSE
    ELSE IF SumLen(filtered) < MinSubstantiveTotal THEN FALSE
    ELSE IF fx.substantive = "raise"
         THEN SumLen(filtered) >= HeuristicSubstantiveTotal /\ Len(filtered) >= 2
    ELSE fx.substantive = "YES"

Min(a, b) == IF a < b THEN a ELSE b
Max(a, b) == IF a > b THEN a ELSE b

\* Variant of the fallback that answers a failed completion with an empty
\* list instead of raising.
extract_analysis_fallback_degraded(filtered, fx) ==
    [raised |-> FALSE,
     key_insights |-> IF fx.insights.outcome = "raise" THEN 0
                      ELSE Min(fx.insights.lines, MaxInsights),
     core_concepts |-> IF fx.concepts.outcome = "raise" THEN 0
                       ELSE Min(fx.concepts.lines, MaxConcepts),
     substantive_score |-> Min(10, Max(1, SumLen(filtered) \div 200)),
     path |-> "fallback"]

\* _extract_analysis_fallback: two text completions, heuristic score.
\* A failure of either completion is not caught.
extract_analysis_fallback(filtered, fx) ==
    IF fx.insights.outcome = "raise" \/ fx.concepts.outcome = "raise"
    THEN [raised |-> TRUE, key_insights |-> 0, core_concepts |-> 0,
          substantive_score |-> 0, path |-> "fallback"]
    ELSE [raised |-> FALSE,
          key_insights |-> Min(fx.insights.lines, MaxInsights),
          core_concepts |-> Min(fx.concepts.lines, MaxConcepts),
          substantive_score |-> Min(10, Max(1, SumLen(filtered) \div 200)),
          path |-> "fallback"]

\* _extract_structured_analysis: structured output first, any failure of it
\* (or an LLM without astructured_predict) goes to the fallback.
extract_structured_analysis(filtered, fx) ==
    IF fx.structured = "ok"
    THEN [raised |-> FALSE,
          key_insights |-> fx.analysis.key_insights,
          core_concepts |-> fx.analysis.core_concepts,
          substantive_score |-> fx.analysis.substantive_score,
          path |-> "structured"]
    ELSE extract_analysis_fallback(filtered, fx)

combine_content(filtered) == [i \in DOMAIN filtered |-> filtered[i].content.text]

LowQualityWarning == "Low quality: minimal substantive content"
LowScoreWarning == "Low substantive value detected"

\* ContentExtractor.extract: the ExtractEvent it returns, or the exception it
\* re-raises (lines 130-132).  path records which branch produced the result:
\* "minimal" (lines 83-102), "structured" or "fallback".
extract(id, msgs, fx) ==
    LET filtered == filter_noise(msgs) IN
    IF ~has_substantive_content(filtered, fx)
    THEN [raised |-> FALSE,
          event |-> [type |-> "ExtractEvent", conversation_log_id |-> id,
                     content_extract |-> [key_insights |-> 0, core_concepts |-> 0,
                                          filtered_content |-> <<>>],
                     quality_warning |-> LowQualityWarning],
          path |-> "minimal"]
    ELSE LET analysis == extract_structured_analysis(filtered, fx) IN
         IF analysis.raised
         THEN [raised |-> TRUE, event |-> None, path |-> analysis.path]
         ELSE [raised |-> FALSE,
               event |-> [type |-> "ExtractEvent", conversation_log_id |-> id,
                          content_extract |->
                              [key_insights |-> Min(analysis.key_insights, MaxInsights),
                               core_concepts |-> Min(analysis.core_concepts, MaxConcepts),
                               filtered_content |-> combine_content(filtered)],
                          quality_warning |->
                              IF analysis.substantive_score < LowScore
                              THEN LowScoreWarning ELSE ""],
               path |-> analysis.path]

\* The LLM calls extract() made that failed: the substantive check (line
\* 201), the structured call (line 243), a text completion of the fallback
\* (lines 300, 327).
extract_failed_calls(msgs, fx) ==
    LET filtered == filter_noise(msgs) IN
    (IF substantive_llm_called(filtered) /\ fx.substantive = "raise"
     THEN {"substantive_check"} ELSE {})
    \cup (IF has_substantive_content(filtered, fx) /\ fx.structured = "raise"
          THEN {"structured_call"} ELSE {})
    \cup (IF /\ has_substantive_content(filtered, fx)
             /\ fx.structured # "ok"
             /\ (fx.insights.outcome = "raise" \/ fx.concepts.outcome = "raise")
          THEN {"fallback_completion"} ELSE {})

(***************************************************************************)
(* ContentExtender (workflows/extender.py).                                *)
(* A gap fixture fixes, for one identified gap, whether it has a query,    *)
(* what the knowledge base does for it and what the web search does:       *)
(*   kb  : [outcome : "ok" | "error", results]                             *)
(*   web : [outcome : "ok" | "fail",  results]                             *)
(* A research result is abstracted to whether it passes the quality        *)
(* heuristics of _filter_bad_results and whether its title is a string     *)
(* ("text") or null.                                                       *)
(***************************************************************************)
\* _query_knowledge_base: any failure is an empty result list.
query_knowledge_base(gap) ==
    IF gap.kb.outcome = "error" THEN <<>> ELSE gap.kb.results

\* _research_gaps, gap by gap in order.  acc is the result list so far; calls
\* records, per researched gap, which providers were called, in call order.
RECURSIVE research_gaps_from(_, _, _, _)
research_gaps_from(gaps, i, acc, calls) ==
    IF i > Len(gaps)
    THEN [raised |-> FALSE, failed |-> FALSE, results |-> acc, calls |-> calls]
    ELSE LET gap == gaps[i] IN
         IF ~gap.query
         THEN research_gaps_from(gaps, i + 1, acc, calls)
         ELSE LET kb == query_knowledge_base(gap) IN
              IF kb # <<>>
              THEN research_gaps_from(gaps, i + 1,
                       Append(acc, [gap |-> i, source |-> "knowledge_base",
                                    results |-> kb]),
                       Append(calls, [gap |-> i, kb |-> TRUE, web |-> FALSE,
                                      providers |-> <<"knowledge_base">>]))
              ELSE IF gap.web.outcome = "fail"
              THEN [raised |-> TRUE, failed |-> TRUE, results |-> acc,
                    calls |-> Append(calls, [gap |-> i, kb |-> TRUE, web |-> TRUE,
                                             providers |-> <<"knowledge_base", "tavily">>])]
              ELSE research_gaps_from(gaps, i + 1,
                       IF gap.web.results # <<>>
                       THEN Append(acc, [gap |-> i, source |-> "tavily",
                                         results |-> gap.web.results])
                       ELSE acc,
                       Append(calls, [gap |-> i, kb |-> TRUE, web |-> TRUE,
                                      providers |-> <<"knowledge_base", "tavily">>]))

\* Variant that treats a failed web search as an empty answer.
research_gaps_tolerant(gaps) ==
    [research_gaps_from(gaps, 1, <<>>, <<>>) EXCEPT !.raised = FALSE]

\* Variant that searches the web for every gap, whatever the knowledge base
\* answered.
research_gaps_web_always(gaps) ==
    research_gaps_from([i \in DOMAIN gaps |-> [gaps[i] EXCEPT !.kb.results = <<>>]],
                       1, <<>>, <<>>)

research_gaps(gaps) == research_gaps_from(gaps, 1, <<>>, <<>>)

\* _filter_bad_results: per gap keep the quality results, drop a gap left
\* with none.
filter_bad_results(research) ==
    LET kept == [k \in DOMAIN research |->
                    [research[k] EXCEPT
                        !.results = SelectSeq(@, LAMBDA r : r.good)]]
    IN SelectSeq(kept, LAMBDA g : g.results # <<>>)

\* _integrate_research builds its input outside its try (lines 358-365):
\* _filter_bad_results concatenates title and content of every result that
\* is long enough (line 282), which raises TypeError for a null title.
integrate_research_raises(research) ==
    \E k \in DOMAIN research : \E i \in DOMAIN research[k].results :
       research[k].results[i].title = "null"

IntegratedContent == <<"integrated">>

\* _integrate_research: the content after integration.
integrate_research(content, research, fx) ==
    IF research = <<>> THEN content
    ELSE IF filter_bad_results(research) = <<>> THEN content
    ELSE IF fx.integrate = "raise" THEN content
    ELSE IntegratedContent

\* The results of one gap that reach the integration prompt (lines 380, 384).
PromptResultsPerGap == 2

\* What _integrate_research does with the research results: whether the
\* integration LLM call is made and, per gap left by _filter_bad_results, the
\* results written into its prompt.
integration(research) ==
    LET filtered == filter_bad_results(research) IN
    IF research = <<>> \/ filtered = <<>>
    THEN [called |-> FALSE, filtered |-> <<>>, context |-> <<>>]
    ELSE [called |-> TRUE, filtered |-> filtered,
          context |-> [k \in DOMAIN filtered |->
                         [filtered[k] EXCEPT
                             !.results = Take(@, PromptResultsPerGap)]]]

\* _identify_knowledge_gaps: a failed call yields no gaps.
identify_knowledge_gaps(fx) ==
    IF fx.identify = "raise" THEN <<>> ELSE fx.gaps

\* The exceptions other than a failed web search that occurred during one
\* extend(): in the gap identification, in a knowledge-base query, in the
\* preparation of the integration or in its LLM call.
extend_exceptions(fx) ==
    LET gaps == identify_knowledge_gaps(fx)
        research == research_gaps(gaps)
    IN (IF fx.identify = "raise" THEN {"identify"} ELSE {})
       \cup (IF \E k \in DOMAIN research.calls :
                  gaps[research.calls[k].gap].kb.outcome = "error"
             THEN {"knowledge_base"} ELSE {})
       \cup (IF ~research.raised /\ integrate_research_raises(research.results)
             THEN {"integrate_input"} ELSE {})
       \cup (IF /\ ~research.raised
                /\ ~integrate_research_raises(research.results)
                /\ filter_bad_results(research.results) # <<>>
                /\ fx.integrate = "raise"
             THEN {"integrate_llm"} ELSE {})

\* ContentExtender.extend: the ExtendEvent, or the exception re-raised
\* (lines 109-114).  searchFailed tells that a web search call failed,
\* kbMiss that the knowledge base had nothing for some researched gap.
extend(ev, fx) ==
    LET gaps == identify_knowledge_gaps(fx)
        research == research_gaps(gaps)
    IN IF gaps = <<>>
       THEN [raised |-> FALSE, searchFailed |-> FALSE, kbMiss |-> FALSE,
             calls |-> <<>>,
             integration |-> [called |-> FALSE, filtered |-> <<>>,
                              context |-> <<>>],
             event |-> [type |-> "ExtendEvent",
                        conversation_log_id |-> ev.conversation_log_id,
                        content_extract |-> ev.content_extract,
                        research_results |-> <<>>, knowledge_gaps |-> 0]]
       ELSE [raised |-> research.raised
                          \/ integrate_research_raises(research.results),
             searchFailed |-> research.failed,
             kbMiss |-> \E k \in DOMAIN research.calls : research.calls[k].web,
             calls |-> research.calls,
             integration |->
                IF research.raised \/ integrate_research_raises(research.results)
                THEN None
                ELSE integration(research.results),
             event |->
                IF research.raised \/ integrate_research_raises(research.results)
                THEN None
                ELSE [type |-> "ExtendEvent",
                      conversation_log_id |-> ev.conversation_log_id,
                      content_extract |->
                          [ev.content_extract EXCEPT
                              !.filtered_content =
                                  integrate_research(@, research.results, fx)],
                      research_results |->
                          [k \in DOMAIN research.results |->
                              research.results[k].source],
                      knowledge_gaps |-> Len(gaps)]]

(***************************************************************************)
(* ContentReviewer (workflows/reviewer.py).                                *)
(* A reviewer fixture fixes the detectors' answers (a list of severities   *)
(* or "raise"), the claims needing a fact check, the configured            *)
(* FACT_CHECK_METHOD and what happens for each checked claim:              *)
(*   "analysed"    sources found (search mode) and the LLM analysis worked *)
(*   "no_sources"  the search returned nothing (search mode only)          *)
(*   "llm_fail"    the per-claim LLM analysis failed                       *)
(*   "search_fail" the search provider failed (search mode only)           *)
(* and the value uuid4() returns for the temporary content_extract_id.     *)
(***************************************************************************)
MaxFactChecks == 5

\* _detect_logical_gaps / _detect_factual_inconsistencies /
\* _detect_unclear_explanations: a failed detector returns [].
detect(d) == IF d.outcome = "raise" THEN <<>> ELSE d.found

\* _detect_fact_checking_needs: the number of claims, 0 when the call fails.
detect_fact_checking_needs(fx) ==
    IF fx.needs.outcome = "raise" THEN 0 ELSE Min(fx.needs.n, 20)

\* _fact_check_via_tavily over the first five claims.
RECURSIVE fact_check_via_tavily_from(_, _, _, _)
fact_check_via_tavily_from(n, checks, i, acc) ==
    IF i > Min(n, MaxFactChecks)
    THEN [raised |-> FALSE, failed |-> FALSE, results |-> acc]
    ELSE IF checks[i] = "search_fail"
    THEN [raised |-> TRUE, failed |-> TRUE, results |-> acc]
    ELSE fact_check_via_tavily_from(n, checks, i + 1,
             Append(acc, CASE checks[i] = "no_sources" -> "unverifiable_no_sources"
                           [] checks[i] = "llm_fail"   -> "partially_verified"
                           [] OTHER                    -> "analysed"))

fact_check_via_tavily(n, checks) == fact_check_via_tavily_from(n, checks, 1, <<>>)

\* Variant in which a failed analysis of one claim ends the fact check.
fact_check_via_llm_aborting(n, checks) ==
    LET bad == \E i \in 1..Min(n, MaxFactChecks) : checks[i] = "llm_fail" IN
    [raised |-> bad, failed |-> FALSE,
     results |-> IF bad THEN <<>>
                 ELSE [i \in 1..Min(n, MaxFactChecks) |-> "analysed"]]

\* _fact_check_via_llm over the first five claims; never raises.
fact_check_via_llm(n, checks) ==
    [raised |-> FALSE, failed |-> FALSE,
     results |-> [i \in 1..Min(n, MaxFactChecks) |->
                     IF checks[i] = "llm_fail" THEN "check_failed" ELSE "analysed"]]

\* _generate_improvement_suggestions: at most 10, [] on failure.
generate_improvement_suggestions(fx) ==
    IF fx.suggest.outcome = "raise" THEN 0 ELSE Min(fx.suggest.n, 10)

HasHigh(found) == \E i \in DOMAIN found : found[i] = "high"
CountHigh(found) == Cardinality({ i \in DOMAIN found : found[i] = "high" })

\* _identify_uncorrectable_errors: the escalation strings, in order.
identify_uncorrectable_errors(issues, needs) ==
    (IF HasHigh(issues.logical_gaps)
     THEN << [kind |-> "high_logical_gaps", n |-> CountHigh(issues.logical_gaps)] >>
     ELSE <<>>)
    \o (IF HasHigh(issues.factual_inconsistencies)
        THEN << [kind |-> "high_factual_inconsistencies",
                 n |-> CountHigh(issues.factual_inconsistencies)] >>
        ELSE <<>>)
    \o (IF needs > 0
        THEN << [kind |-> "fact_check_needed", n |-> needs] >>
        ELSE <<>>)

\* Variant of the three detector calls in which one failed detector empties
\* the findings of all three.
detect_issues_coupled(fx) ==
    IF "raise" \in {fx.logical.outcome, fx.factual.outcome, fx.unclear.outcome}
    THEN [logical_gaps |-> <<>>, factual_inconsistencies |-> <<>>,
          unclear_explanations |-> <<>>]
    ELSE [logical_gaps |-> fx.logical.found,
          factual_inconsistencies |-> fx.factual.found,
          unclear_explanations |-> fx.unclear.found]

\* The three detector calls of review (lines 72-74), one after the other.
detect_issues(fx) ==
    [logical_gaps |-> detect(fx.logical),
     factual_inconsistencies |-> detect(fx.factual),
     unclear_explanations |-> detect(fx.unclear)]

\* ContentReviewer.review: the ReviewEvent, or the exception re-raised
\* (lines 134-136).
review(ev, fx) ==
    LET needs == detect_fact_checking_needs(fx)
        checked == IF needs = 0
                   THEN [raised |-> FALSE, failed |-> FALSE, results |-> <<>>]
                   ELSE IF fx.method = "TAVILY"
                        THEN fact_check_via_tavily(needs, fx.checks)
                        ELSE fact_check_via_llm(needs, fx.checks)
        issues == [logical_gaps |-> detect_issues(fx).logical_gaps,
                   factual_inconsistencies |->
                       detect_issues(fx).factual_inconsistencies,
                   unclear_explanations |-> detect_issues(fx).unclear_explanations,
                   fact_check_results |-> checked.results]
    IN IF checked.raised
       THEN [raised |-> TRUE, searchFailed |-> checked.failed, event |-> None]
       ELSE [raised |-> FALSE, searchFailed |-> checked.failed,
             event |-> [type |-> "ReviewEvent",
                        conversation_log_id |-> ev.conversation_log_id,
                        review_findings |->
                            [content_extract_id |->
                                 IF "id" \in DOMAIN ev.content_extract
                                 THEN ev.content_extract.id ELSE fx.uuid,
                             issues |-> issues,
                             improvement_suggestions |->
                                 generate_improvement_suggestions(fx),
                             fact_checking_needs |-> needs],
                        content_extract |-> ev.content_extract,
                        errors |-> identify_uncorrectable_errors(issues, needs),
                        prompt_suggestions |-> <<>>]]

(***************************************************************************)
(* Pydantic models of the prompt analysis (storage/models.py 85-103).      *)
(***************************************************************************)
CandidateTypes == {"structured", "role-play", "chain-of-thought"}
MinCandidates == 3

\* Variant of the validation that accepts every value.
NoValidation(model, value) == TRUE

\* Pydantic validation at construction: a PromptCandidate needs one of the
\* three literal types, a PromptSuggestion at least three valid candidates.
Validates(model, value) ==
    CASE model = "PromptCandidate" -> value.type \in CandidateTypes
      [] model = "PromptSuggestion" ->
            /\ Len(value) >= MinCandidates
            /\ \A i \in DOMAIN value : value[i].type \in CandidateTypes
      [] OTHER -> FALSE

\* PromptCandidate(type=..., prompt=..., reasoning=...) validates.
PromptCandidateValid(c) == Validates("PromptCandidate", c)

\* PromptSuggestion(..., better_candidates=...) validates.
PromptSuggestionValid(cands) == Validates("PromptSuggestion", cands)

(***************************************************************************)
(* PromptAnalyzer (workflows/prompt_analyzer.py).                          *)
(* A prompt fixture fixes what the LLM does for one prompt:                *)
(*   safety     : "safe" | "low_risk" | "medium_risk" | "high_risk" |      *)
(*                "not_safe" | "raise"                                     *)
(*   evaluate, reasoning, effect : "ok" | "raise"                          *)
(*   structured, text, more : [outcome : "ok" | "raise", items] where an   *)
(*                item is [type, long] (long: the prompt has more than 20  *)
(*                characters)                                              *)
(***************************************************************************)
MinPromptLen == 10
MaxCandidates == 10

\* _extract_user_prompts: the user messages longer than 10 characters.
extract_user_prompts(msgs) ==
    LET users == SelectSeq(msgs, LAMBDA m : m.role = "user" /\ m.content.len > 0)
        long == SelectSeq(users, LAMBDA m : m.content.len > MinPromptLen)
    IN [i \in DOMAIN long |-> long[i].content.text]

\* ConversationMemoryManager defines no get_summarized_context, so the call
\* of line 765 raises AttributeError whatever the memory holds.
memory_has_summarized_context == FALSE

\* _summarize_conversation_context(messages, memory).
summarize_conversation_context(msgs) ==
    IF Len(msgs) <= 2
    THEN [count |-> Len(msgs), assistant |-> "", source |-> "count"]
    ELSE IF memory_has_summarized_context
    THEN [count |-> 0, assistant |-> "", source |-> "memory"]
    ELSE LET replies == SelectSeq(msgs, LAMBDA m : m.role = "assistant") IN
         [count |-> Len(msgs),
          assistant |-> IF replies # <<>> THEN Head(replies).content.text ELSE "",
          source |-> "fallback"]

\* What every LLM call made for one prompt is given (lines 89, 129, 133,
\* 144, 157, 160): the prompt itself and the context summary of the message
\* list passed along, which is the whole conversation.
analysis_inputs(msgs, prompt) ==
    [prompt |-> prompt, context |-> summarize_conversation_context(msgs)]

\* The candidates kept from an LLM answer: those that validate as
\* PromptCandidate and whose prompt is longer than 20 characters.
kept_candidates(items) ==
    SelectSeq(items, LAMBDA c : PromptCandidateValid(c) /\ c.long)

\* _generate_fallback_structured_alternatives: three template candidates;
\* constructing one that does not validate raises.
FallbackTemplates ==
    << [type |-> "minimalist", long |-> TRUE],
       [type |-> "structured", long |-> TRUE],
       [type |-> "chain-of-thought", long |-> TRUE] >>

generate_fallback_structured_alternatives ==
    IF \A i \in DOMAIN FallbackTemplates : PromptCandidateValid(FallbackTemplates[i])
    THEN [raised |-> FALSE, candidates |-> FallbackTemplates]
    ELSE [raised |-> TRUE, candidates |-> <<>>]

\* _generate_structured_alternative_prompts: structured call, JSON-in-text
\* call, then the template fallback (line 507, outside the try).
generate_structured_alternative_prompts(fx) ==
    LET first == IF fx.structured.outcome = "raise" THEN <<>>
                 ELSE kept_candidates(fx.structured.items)
        second == IF fx.text.outcome = "raise" THEN <<>>
                  ELSE kept_candidates(fx.text.items)
    IN IF Len(first) >= MinCandidates
       THEN [raised |-> FALSE, candidates |-> Take(first, MaxCandidates),
             path |-> "structured"]
       ELSE IF Len(second) >= MinCandidates
       THEN [raised |-> FALSE, candidates |-> Take(second, MaxCandidates),
             path |-> "text"]
       ELSE [raised |-> generate_fallback_structured_alternatives.raised,
             candidates |-> generate_fallback_structured_alternatives.candidates,
             path |-> "fallback"]

\* _generate_additional_structured_candidates: [] on failure.
generate_additional_structured_candidates(fx) ==
    IF fx.more.outcome = "raise" THEN <<>> ELSE kept_candidates(fx.more.items)

SafetyFlagged(fx) == fx.safety \in {"medium_risk", "high_risk", "not_safe"}

SafetyCandidates == << [type |-> "safety-guidance", long |-> TRUE] >>

\* The body of the per-prompt try block of analyze (lines 80-189): the
\* PromptSuggestion appended, or omitted when anything in it raises.
analyze_prompt(prompt, fx) ==
    IF SafetyFlagged(fx)
    THEN IF /\ \A i \in DOMAIN SafetyCandidates :
                   PromptCandidateValid(SafetyCandidates[i])
            /\ PromptSuggestionValid(SafetyCandidates)
         THEN [omitted |-> FALSE, path |-> "safety",
               suggestion |-> [original_prompt |-> prompt,
                               better_candidates |-> SafetyCandidates,
                               kind |-> "safety"]]
         ELSE [omitted |-> TRUE, path |-> "safety", suggestion |-> None]
    ELSE IF fx.evaluate = "raise"
    THEN [omitted |-> TRUE, path |-> "evaluate", suggestion |-> None]
    ELSE LET gen == generate_structured_alternative_prompts(fx) IN
         IF gen.raised
         THEN [omitted |-> TRUE, path |-> gen.path, suggestion |-> None]
         ELSE LET c1 == gen.candidates
                  c2 == IF Len(c1) < MinCandidates
                        THEN c1 \o generate_additional_structured_candidates(fx)
                        ELSE c1
                  fb == generate_fallback_structured_alternatives
                  needFb == Len(c2) < MinCandidates
                  c3 == IF needFb /\ ~fb.raised
                        THEN Take(c2 \o fb.candidates, MaxCandidates)
                        ELSE c2
                  final == Take(c3, MaxCandidates)
              IN IF needFb /\ fb.raised
                 THEN [omitted |-> TRUE, path |-> "fallback", suggestion |-> None]
                 ELSE IF fx.reasoning = "raise"
                 THEN [omitted |-> TRUE, path |-> "reasoning", suggestion |-> None]
                 ELSE IF ~PromptSuggestionValid(final)
                 THEN [omitted |-> TRUE, path |-> "validation", suggestion |-> None]
                 ELSE [omitted |-> FALSE, path |-> gen.path,
                       suggestion |-> [original_prompt |-> prompt,
                                       better_candidates |-> final,
                                       kind |-> "optimised"]]

\* Variant of the per-prompt loop in which the first failing prompt ends the
\* loop.
RECURSIVE analyze_from_abort(_, _, _, _)
analyze_from_abort(prompts, fxs, i, acc) ==
    IF i > Len(prompts) THEN acc
    ELSE LET one == analyze_prompt(prompts[i], fxs[i]) IN
         IF one.omitted THEN acc
         ELSE analyze_from_abort(prompts, fxs, i + 1, Append(acc, one.suggestion))

\* PromptAnalyzer.analyze: one suggestion per qualifying prompt, in order,
\* the omitted ones left out.  fxs gives the fixture of each prompt.
RECURSIVE analyze_from(_, _, _, _)
analyze_from(prompts, fxs, i, acc) ==
    IF i > Len(prompts) THEN acc
    ELSE LET one == analyze_prompt(prompts[i], fxs[i]) IN
         analyze_from(prompts, fxs, i + 1,
                      IF one.omitted THEN acc ELSE Append(acc, one.suggestion))

analyze(id, msgs, fxs) ==
    [type |-> "PromptAnalysisEvent", conversation_log_id |-> id,
     prompt_suggestions |-> analyze_from(extract_user_prompts(msgs), fxs, 1, <<>>)]

(***************************************************************************)
(* BlogEditor (workflows/editor.py).                                       *)
(* An editor fixture fixes what the LLM does during one edit():            *)
(*   factory : get_llm(temperature=...) returns an LLM ("ok") or raises    *)
(*   content : the article completion, "ok" | "raise"                      *)
(*   title, summary : [structured : "ok" | "raise",                        *)
(*                     text : "json" | "raw" | "raise",                    *)
(*                     empty : whether the cleaned text is empty]          *)
(***************************************************************************)
\* _generate_blog_content: the article written from the filtered content;
\* everything is inside the try, any failure gives the fixed notice.
generate_blog_content(content_extract, fx) ==
    IF fx.factory = "raise" \/ fx.content = "raise"
    THEN [kind |-> "fallback-notice", from |-> <<>>]
    ELSE [kind |-> "generated", from |-> content_extract.filtered_content]

\* _generate_title: structured output, then JSON in a text completion, then
\* the raw text; get_llm and the text completion are outside any try.
generate_title(fx) ==
    IF fx.factory = "raise" THEN [raised |-> TRUE, text |-> "", tier |-> "factory"]
    ELSE IF fx.title.structured = "ok"
    THEN [raised |-> FALSE, text |-> IF fx.title.empty THEN "" ELSE "title",
          tier |-> "structured"]
    ELSE IF fx.title.text = "raise"
    THEN [raised |-> TRUE, text |-> "", tier |-> "text"]
    ELSE [raised |-> FALSE, text |-> IF fx.title.empty THEN "" ELSE "title",
          tier |-> fx.title.text]

\* _generate_summary: the same three tiers.
generate_summary(fx) ==
    IF fx.factory = "raise" THEN [raised |-> TRUE, text |-> "", tier |-> "factory"]
    ELSE IF fx.summary.structured = "ok"
    THEN [raised |-> FALSE, text |-> IF fx.summary.empty THEN "" ELSE "summary",
          tier |-> "structured"]
    ELSE IF fx.summary.text = "raise"
    THEN [raised |-> TRUE, text |-> "", tier |-> "text"]
    ELSE [raised |-> FALSE, text |-> IF fx.summary.empty THEN "" ELSE "summary",
          tier |-> fx.summary.text]

RECURSIVE SumCandidates(_)
SumCandidates(ps) ==
    IF ps = <<>> THEN 0
    ELSE Len(Head(ps).better_candidates) + SumCandidates(Tail(ps))

\* Variant of _build_blog_metadata that leaves the review errors out.
build_blog_metadata_silent(content_extract, review_findings, errors, prompt_suggestions) ==
    [key_insights |-> content_extract.key_insights,
     core_concepts |-> content_extract.core_concepts,
     fact_checking_needs_count |-> review_findings.fact_checking_needs,
     review_errors |-> <<>>,
     prompt_suggestions_count |-> Len(prompt_suggestions),
     total_candidates_count |-> SumCandidates(prompt_suggestions)]

\* _build_blog_metadata.  review_errors = <<>> stands for the absent key.
build_blog_metadata(content_extract, review_findings, errors, prompt_suggestions) ==
    [key_insights |-> content_extract.key_insights,
     core_concepts |-> content_extract.core_concepts,
     fact_checking_needs_count |-> review_findings.fact_checking_needs,
     review_errors |-> errors,
     prompt_suggestions_count |-> Len(prompt_suggestions),
     total_candidates_count |-> SumCandidates(prompt_suggestions)]

\* BlogPost(title=..., summary=...) validates (models.py 39-40).
BlogPostValid(title, summary) == title # "" /\ summary # ""

\* BlogEditor.edit: the EditEvent, or the exception re-raised (109-111).
\* An event without content_extract / review_findings (anything but a
\* ReviewEvent) raises AttributeError at lines 60-61.
edit(ev, fx) ==
    IF ~({"content_extract", "review_findings", "errors"} \subseteq DOMAIN ev)
    THEN [raised |-> TRUE, event |-> None, why |-> "attribute"]
    ELSE LET title == generate_title(fx)
             summary == generate_summary(fx)
         IN IF title.raised \/ summary.raised
            THEN [raised |-> TRUE, event |-> None, why |-> "llm"]
            ELSE IF ~BlogPostValid(title.text, summary.text)
            THEN [raised |-> TRUE, event |-> None, why |-> "validation"]
            ELSE [raised |-> FALSE, why |-> "",
                  event |->
                    [type |-> "EditEvent",
                     conversation_log_id |-> ev.conversation_log_id,
                     blog_post |->
                        [conversation_log_id |-> ev.conversation_log_id,
                         title |-> title.text, summary |-> summary.text,
                         tags |-> Min(ev.content_extract.core_concepts, 5),
                         content |-> generate_blog_content(ev.content_extract, fx),
                         metadata |-> build_blog_metadata(ev.content_extract,
                                          ev.review_findings, ev.errors,
                                          ev.prompt_suggestions),
                         status |-> "draft"],
                     prompt_suggestions |-> ev.prompt_suggestions]]

(***************************************************************************)
(* Fixtures of the workflow specification: for each stage a small set of   *)
(* LLM / provider behaviours covering its success and failure branches.    *)
(***************************************************************************)
MaxRuns == 2
Runs == 1..MaxRuns

WfConversations ==
    { << Msg("user", "longA"), Msg("assistant", "longB") >>,
      << Msg("user", "q12"), Msg("assistant", "hi") >> }

Lines(n) == [outcome |-> "ok", lines |-> n]
Raise == [outcome |-> "raise", lines |-> 0]

WfExtractorFixtures ==
    [substantive : {"YES", "raise"},
     structured : {"ok", "raise"},
     analysis : {[key_insights |-> 4, core_concepts |-> 6, substantive_score |-> 7]},
     insights : {Lines(3), Raise},
     concepts : {Lines(3)}]

Good == [good |-> TRUE, title |-> "text"]
Bad == [good |-> FALSE, title |-> "text"]
NullTitle == [good |-> TRUE, title |-> "null"]

Gap(kbOutcome, kbResults, webOutcome, webResults) ==
    [query |-> TRUE,
     kb |-> [outcome |-> kbOutcome, results |-> kbResults],
     web |-> [outcome |-> webOutcome, results |-> webResults]]

WfExtenderFixtures ==
    [identify : {"ok"},
     gaps : { <<>>,
              << Gap("ok", <<>>, "ok", <<Good>>) >>,
              << Gap("error", <<>>, "fail", <<>>) >> },
     integrate : {"ok"}]

NoneFound == [outcome |-> "ok", found |-> <<>>]

\* Values uuid4() may return.
UUIDs == {"u1", "u2"}

WfReviewerFixtures ==
    [logical : {[outcome |-> "ok", found |-> <<"high">>]},
     factual : {NoneFound},
     unclear : {NoneFound},
     needs : {[outcome |-> "ok", n |-> 1]},
     method : {"LLM", "TAVILY"},
     checks : { <<"search_fail">> },
     suggest : {[outcome |-> "ok", n |-> 2]},
     uuid : UUIDs]

Item(t) == [type |-> t, long |-> TRUE]
Items(its) == [outcome |-> "ok", items |-> its]
NoItems == [outcome |-> "raise", items |-> <<>>]
ThreeItems == << Item("structured"), Item("role-play"), Item("chain-of-thought") >>

WfPromptFixtures ==
    [safety : {"safe", "not_safe"},
     evaluate : {"ok"},
     structured : {Items(ThreeItems), NoItems},
     text : {NoItems},
     more : {NoItems},
     reasoning : {"ok"},
     effect : {"ok"}]

Tier(s, t, e) == [structured |-> s, text |-> t, empty |-> e]

WfEditorFixtures ==
    [factory : {"ok", "raise"},
     content : {"ok"},
     title : {Tier("ok", "json", FALSE), Tier("raise", "raise", FALSE)},
     summary : {Tier("ok", "json", FALSE)}]

(***************************************************************************)
(* BlogWorkflow (workflows/blog_workflow.py) on the llama_index runtime.   *)
(* A returned event is delivered to every step that accepts its type; the  *)
(* steps of one run execute one at a time in any order.                    *)
(***************************************************************************)
StartEvent(id, msgs) ==
    [type |-> "BlogWorkflowStartEvent", conversation_log_id |-> id,
     messages |-> msgs]

\* Variant: review_step also accepts the ExtractEvent.
AcceptsReviewEarly(t) ==
    CASE t = "BlogWorkflowStartEvent" -> {"extract_step", "prompt_analysis_step"}
      [] t = "ExtractEvent"           -> {"extend_step", "review_step"}
      [] t = "ExtendEvent"            -> {"review_step"}
      [] t \in {"ReviewEvent", "PromptAnalysisEvent"} -> {"edit_step"}
      [] t = "EditEvent"              -> {"finalize_step"}
      [] OTHER                        -> {}

\* The steps whose signature accepts an event type.
Accepts(t) ==
    CASE t = "BlogWorkflowStartEvent" -> {"extract_step", "prompt_analysis_step"}
      [] t = "ExtractEvent"           -> {"extend_step"}
      [] t = "ExtendEvent"            -> {"review_step"}
      [] t \in {"ReviewEvent", "PromptAnalysisEvent"} -> {"edit_step"}
      [] t = "EditEvent"              -> {"finalize_step"}
      [] OTHER                        -> {}

Send(ev) == { [step |-> s, ev |-> ev] : s \in Accepts(ev.type) }

JoinTypes == << "ReviewEvent", "PromptAnalysisEvent" >>
EmptyBuffer == [t \in Range(JoinTypes) |-> <<>>]

\* Variants of collect_events used to test the join properties: one that
\* returns as soon as any expected event is present, one that returns the
\* events in arrival order.
collect_events_eager(buf, ev, expected) ==
    [results |-> [i \in DOMAIN expected |-> ev], buffer |-> buf]

collect_events_arrival(buf, ev, expected) ==
    LET buf1 == [buf EXCEPT ![ev.type] = Append(@, ev)] IN
    IF \A i \in DOMAIN expected : buf1[expected[i]] # <<>>
    THEN [results |-> << Head(buf1[CHOOSE t \in Range(expected) : t # ev.type]), ev >>,
          buffer |-> [t \in DOMAIN buf1 |->
                        IF t \in Range(expected) THEN Tail(buf1[t]) ELSE buf1[t]]]
    ELSE [results |-> <<>>, buffer |-> buf1]

\* Context.collect_events(ev, expected): ev is appended to the buffer of its
\* type; when every expected type has a buffered event the first of each is
\* removed and returned in the order of `expected`, otherwise nothing is
\* returned (results = <<>>) and the buffer keeps ev.
collect_events(buf, ev, expected) ==
    LET buf1 == [buf EXCEPT ![ev.type] = Append(@, ev)] IN
    IF \A i \in DOMAIN expected : buf1[expected[i]] # <<>>
    THEN [results |-> [i \in DOMAIN expected |-> Head(buf1[expected[i]])],
          buffer |-> [t \in DOMAIN buf1 |->
                        IF t \in Range(expected) THEN Tail(buf1[t]) ELSE buf1[t]]]
    ELSE [results |-> <<>>, buffer |-> buf1]

\* Variant: one buffer shared by every run of the workflow instance.
SharedContext(r) == 1

\* Workflow.run() creates a fresh Context for every run, so the buffer an
\* edit_step uses is the one of its own run.
ContextOf(r) == r

\* ConversationMemoryManager.from_messages as the two steps use it: the
\* constructor runs outside the try and may raise; a failed fact extraction
\* is caught inside.
MemoryInit == {"ok", "raise"}

Returns(r, item, ev) ==
    /\ pending' = [pending EXCEPT ![r] = (@ \ {item}) \cup Send(ev)]
    /\ emitted' = [emitted EXCEPT ![r] = @ \cup {ev}]
    /\ UNCHANGED <<status, cause>>

\* An exception in a step ends the run: the caller of run() gets the
\* exception and the remaining steps are cancelled.
Raises(r, why) ==
    /\ status' = [status EXCEPT ![r] = "failed"]
    /\ pending' = [pending EXCEPT ![r] = {}]
    /\ cause' = [cause EXCEPT ![r] = why]
    /\ UNCHANGED emitted

Handles(r, item, step) ==
    /\ status[r] = "running"
    /\ item \in pending[r]
    /\ item.step = step

\* run_workflow: build the start event and start a run.
StartRun(r) ==
    /\ status[r] = "idle"
    /\ \E conv \in WfConversations :
         /\ messages' = [messages EXCEPT ![r] = conv]
         /\ pending' = [pending EXCEPT ![r] = Send(StartEvent(r, conv))]
    /\ status' = [status EXCEPT ![r] = "running"]
    /\ UNCHANGED <<buffer, arrived, emitted, joined, editIn, editFixture, result,
                   cause, incidents, svc, pa, mem, st>>

extract_step(r) ==
    \E item \in pending[r], init \in MemoryInit, fx \in WfExtractorFixtures :
       /\ Handles(r, item, "extract_step")
       /\ IF init = "raise"
          THEN Raises(r, "memory_init") /\ UNCHANGED incidents
          ELSE LET out == extract(r, item.ev.messages, fx) IN
               /\ incidents' = [incidents EXCEPT ![r] =
                      @ \cup extract_failed_calls(item.ev.messages, fx)]
               /\ IF out.raised THEN Raises(r, "extract")
                  ELSE Returns(r, item, out.event)
       /\ UNCHANGED <<messages, buffer, arrived, joined, editIn, editFixture,
                      result, svc, pa, mem, st>>

prompt_analysis_step(r) ==
    \E item \in pending[r], init \in MemoryInit :
       /\ Handles(r, item, "prompt_analysis_step")
       /\ IF init = "raise"
          THEN Raises(r, "memory_init")
          ELSE \E fxs \in [1..Len(extract_user_prompts(item.ev.messages))
                             -> WfPromptFixtures] :
                  Returns(r, item, analyze(r, item.ev.messages, fxs))
       /\ UNCHANGED <<messages, buffer, arrived, joined, editIn, editFixture,
                      result, incidents, svc, pa, mem, st>>

extend_step(r) ==
    \E item \in pending[r], fx \in WfExtenderFixtures :
       /\ Handles(r, item, "extend_step")
       /\ LET out == extend(item.ev, fx) IN
          /\ IF out.raised THEN Raises(r, "extend")
             ELSE Returns(r, item, out.event)
          /\ incidents' = [incidents EXCEPT ![r] =
                 @ \cup (IF out.searchFailed THEN {"extend_search"} ELSE {})
                   \cup (IF out.kbMiss THEN {"kb_miss"} ELSE {})]
       /\ UNCHANGED <<messages, buffer, arrived, joined, editIn, editFixture,
                      result, svc, pa, mem, st>>

\* The ExtractEvent review_step rebuilds from the ExtendEvent (lines 96-101).
as_extract_event(ev) ==
    [type |-> "ExtractEvent", conversation_log_id |-> ev.conversation_log_id,
     content_extract |-> ev.content_extract, quality_warning |-> ""]

review_step(r) ==
    \E item \in pending[r], fx \in WfReviewerFixtures :
       /\ Handles(r, item, "review_step")
       /\ LET out == review(as_extract_event(item.ev), fx) IN
          /\ IF out.raised THEN Raises(r, "review")
             ELSE Returns(r, item, out.event)
          /\ incidents' = [incidents EXCEPT ![r] =
                 IF out.searchFailed THEN @ \cup {"review_search"} ELSE @]
       /\ UNCHANGED <<messages, buffer, arrived, joined, editIn, editFixture,
                      result, svc, pa, mem, st>>

\* Variant of the merge that keeps a list the ReviewEvent already carries.
join_events_keeping(results) ==
    IF results[1].prompt_suggestions # <<>> THEN results[1]
    ELSE [results[1] EXCEPT !.prompt_suggestions = results[2].prompt_suggestions]

\* edit_step after the join (lines 119-123): the ReviewEvent given to the
\* editor carries the prompt_suggestions of the PromptAnalysisEvent.
join_events(results) ==
    [results[1] EXCEPT !.prompt_suggestions = results[2].prompt_suggestions]

\* The BlogWorkflowStopEvent finalize_step builds (lines 136-140).
finalize(ev) ==
    [type |-> "BlogWorkflowStopEvent",
     blog_post |-> ev.blog_post,
     prompt_suggestions |-> ev.prompt_suggestions,
     conversation_log_id |-> ev.conversation_log_id]

\* edit_step, for either of the two event types it accepts.
edit_step(r) ==
    \E item \in pending[r] :
       /\ Handles(r, item, "edit_step")
       /\ arrived' = [arrived EXCEPT ![r] = Append(@, item.ev.type)]
       /\ LET got == collect_events(buffer[ContextOf(r)], item.ev, JoinTypes) IN
          /\ buffer' = [buffer EXCEPT ![ContextOf(r)] = got.buffer]
          /\ IF got.results = <<>>
             THEN /\ pending' = [pending EXCEPT ![r] = @ \ {item}]
                  /\ UNCHANGED <<status, cause, emitted, joined, editIn, editFixture>>
             ELSE LET review_ev == join_events(got.results)
                  IN \E fx \in WfEditorFixtures :
                        /\ joined' = [joined EXCEPT ![r] = got.results]
                        /\ editIn' = [editIn EXCEPT ![r] = review_ev]
                        /\ editFixture' = [editFixture EXCEPT ![r] = fx]
                        /\ IF edit(review_ev, fx).raised THEN Raises(r, "edit")
                           ELSE Returns(r, item, edit(review_ev, fx).event)
       /\ UNCHANGED <<messages, result, incidents, svc, pa, mem, st>>

finalize_step(r) ==
    \E item \in pending[r] :
       /\ Handles(r, item, "finalize_step")
       /\ result' = [result EXCEPT ![r] = finalize(item.ev)]
       /\ status' = [status EXCEPT ![r] = "done"]
       /\ pending' = [pending EXCEPT ![r] = @ \ {item}]
       /\ UNCHANGED <<messages, buffer, arrived, emitted, joined, editIn,
                      editFixture, cause, incidents, svc, pa, mem, st>>

\* The timeout given to Workflow.__init__ (lines 39-41) expires while the run
\* is in progress: the steps are cancelled and run() raises
\* WorkflowTimeoutError.
Timeout(r) ==
    /\ status[r] = "running"
    /\ status' = [status EXCEPT ![r] = "timeout"]
    /\ pending' = [pending EXCEPT ![r] = {}]
    /\ cause' = [cause EXCEPT ![r] = "WorkflowTimeoutError"]
    /\ UNCHANGED <<messages, buffer, arrived, emitted, joined, editIn,
                   editFixture, result, incidents, svc, pa, mem, st>>

InitWorkflow ==
    /\ status = [r \in Runs |-> "idle"]
    /\ messages = [r \in Runs |-> <<>>]
    /\ pending = [r \in Runs |-> {}]
    /\ buffer = [c \in Runs |-> EmptyBuffer]
    /\ arrived = [r \in Runs |-> <<>>]
    /\ emitted = [r \in Runs |-> {}]
    /\ joined = [r \in Runs |-> <<>>]
    /\ editIn = [r \in Runs |-> None]
    /\ editFixture = [r \in Runs |-> None]
    /\ result = [r \in Runs |-> None]
    /\ cause = [r \in Runs |-> ""]
    /\ incidents = [r \in Runs |-> {}]

SvcIdle == [phase |-> "unused"]
PaIdle == [phase |-> "unused"]
MemIdle == [phase |-> "unused"]
StIdle == [op |-> "unused"]

Init ==
    /\ InitWorkflow
    /\ svc = SvcIdle
    /\ pa = PaIdle
    /\ mem = MemIdle
    /\ st = StIdle

Next ==
    \E r \in Runs :
       \/ StartRun(r)
       \/ extract_step(r)
       \/ prompt_analysis_step(r)
       \/ extend_step(r)
       \/ review_step(r)
       \/ edit_step(r)
       \/ finalize_step(r)
       \/ Timeout(r)

Spec == Init /\ [][Next]_vars

(***************************************************************************)
(* Properties of the join in edit_step.                                    *)
(***************************************************************************)
EmittedOf(r, t) == { e \in emitted[r] : e.type = t }
BothArrived(r) == Range(JoinTypes) \subseteq Range(arrived[r])
WithoutId(e) == [e EXCEPT !.conversation_log_id = 0]
EditedWithoutId(e) ==
    [e EXCEPT !.conversation_log_id = 0, !.blog_post.conversation_log_id = 0]

\* C1: edit_step never runs the editor on partial input.  While only one of
\* ReviewEvent / PromptAnalysisEvent has reached edit_step the event is kept
\* in the buffer, the editor has not been invoked and no EditEvent exists;
\* whenever the editor has been invoked, both events had arrived and the
\* join returned one event of each type.
C1_NoEditOnPartialInput ==
    \A r \in Runs :
       /\ Len(arrived[r]) = 1 =>
             /\ editIn[r] = None
             /\ joined[r] = <<>>
             /\ EmittedOf(r, "EditEvent") = {}
             /\ Len(buffer[ContextOf(r)][arrived[r][1]]) = 1
       /\ (editIn[r] # None \/ EmittedOf(r, "EditEvent") # {}) =>
             /\ BothArrived(r)
             /\ [i \in DOMAIN joined[r] |-> joined[r][i].type] = JoinTypes

C1_Witness ==
    \E r \in Runs :
       /\ status[r] = "running"
       /\ arrived[r] = << "PromptAnalysisEvent" >>
       /\ EmittedOf(r, "ReviewEvent") = {}
       /\ editIn[r] = None

\* C2: the editor's input and output do not depend on which branch finished
\* first.  The event given to the editor is the run's ReviewEvent carrying
\* the prompt_suggestions of the run's PromptAnalysisEvent, and the EditEvent
\* is what the editor makes of it, in either arrival order; two runs with the
\* same stage outputs and opposite arrival orders give the editor the same
\* input and get the same outcome.
C2_JoinOrderIndependent ==
    /\ \A r \in Runs : editIn[r] # None =>
          \E rev \in EmittedOf(r, "ReviewEvent"),
             pae \in EmittedOf(r, "PromptAnalysisEvent") :
               /\ editIn[r] = [rev EXCEPT
                                 !.prompt_suggestions = pae.prompt_suggestions]
               /\ \A e \in EmittedOf(r, "EditEvent") :
                     e = edit(editIn[r], editFixture[r]).event
    /\ \A r1, r2 \in Runs :
          ( /\ editIn[r1] # None /\ editIn[r2] # None
            /\ arrived[r1] # arrived[r2]
            /\ editFixture[r1] = editFixture[r2]
            /\ { WithoutId(e) : e \in EmittedOf(r1, "ReviewEvent") }
                 = { WithoutId(e) : e \in EmittedOf(r2, "ReviewEvent") }
            /\ { WithoutId(e) : e \in EmittedOf(r1, "PromptAnalysisEvent") }
                 = { WithoutId(e) : e \in EmittedOf(r2, "PromptAnalysisEvent") } )
          => /\ WithoutId(editIn[r1]) = WithoutId(editIn[r2])
             /\ { EditedWithoutId(e) : e \in EmittedOf(r1, "EditEvent") }
                  = { EditedWithoutId(e) : e \in EmittedOf(r2, "EditEvent") }

C2_Witness ==
    \E r1, r2 \in Runs :
       /\ arrived[r1] = << "ReviewEvent", "PromptAnalysisEvent" >>
       /\ arrived[r2] = << "PromptAnalysisEvent", "ReviewEvent" >>
       /\ EmittedOf(r1, "EditEvent") # {}
       /\ { EditedWithoutId(e) : e \in EmittedOf(r1, "EditEvent") }
            = { EditedWithoutId(e) : e \in EmittedOf(r2, "EditEvent") }

\* C3: two runs in progress on the same BlogWorkflow never consume each
\* other's events and neither blocks the other.  The events a run's join
\* returned were produced by that run's own steps and carry its
\* conversation_log_id, events wait only in the buffer of their own run, and
\* once both of a run's events have reached edit_step its editor has been
\* invoked, whatever the other run is doing.
C3_RunsIsolated ==
    \A r \in Runs :
       /\ \A i \in DOMAIN joined[r] :
             /\ joined[r][i] \in emitted[r]
             /\ joined[r][i].conversation_log_id = r
       /\ editIn[r] # None => editIn[r].conversation_log_id = r
       /\ \A t \in Range(JoinTypes) : \A i \in DOMAIN buffer[r][t] :
             buffer[r][t][i].conversation_log_id = r
       /\ BothArrived(r) => editIn[r] # None

C3_Witness ==
    \E r1, r2 \in Runs :
       /\ r1 # r2
       /\ status[r1] = "running"
       /\ arrived[r1] = << "ReviewEvent" >>
       /\ arrived[r2] = << "PromptAnalysisEvent", "ReviewEvent" >>
       /\ editIn[r2] # None
       /\ editIn[r2].conversation_log_id = r2

(***************************************************************************)
(* PromptAnalyzer.analyze on its own.  The state holds a conversation and  *)
(* a cut: the position of one of its qualifying user messages.  The        *)
(* conversation is analysed as given, and so is the conversation as it     *)
(* stood right after the message at the cut.                               *)
(***************************************************************************)
MaxMessages == 3

PaMessages ==
    { Msg("user", "q12"), Msg("user", "longA"), Msg("user", "hi"),
      Msg("assistant", "longB"), Msg("assistant", "thanks") }

PaConversations ==
    UNION { [1..n -> PaMessages] : n \in 0..MaxMessages }

TwoItems == << Item("structured"), Item("role-play") >>
FourItems == ThreeItems \o << Item("structured") >>

PFx(safety, evaluate, structured, text, more, reasoning) ==
    [safety |-> safety, evaluate |-> evaluate, structured |-> structured,
     text |-> text, more |-> more, reasoning |-> reasoning, effect |-> "ok"]

PaPromptFixtures ==
    { PFx("safe", "ok", Items(FourItems), NoItems, NoItems, "ok"),
      PFx("safe", "ok", NoItems, Items(ThreeItems), NoItems, "ok"),
      PFx("safe", "ok", Items(TwoItems), NoItems, Items(TwoItems), "ok"),
      PFx("safe", "ok", Items(<< Item("minimalist"), Item("structured") >>),
          Items(<<>>), NoItems, "ok"),
      PFx("safe", "ok", NoItems, NoItems, NoItems, "ok"),
      PFx("raise", "raise", Items(ThreeItems), NoItems, NoItems, "ok"),
      PFx("high_risk", "ok", Items(ThreeItems), NoItems, NoItems, "ok"),
      PFx("not_safe", "ok", NoItems, NoItems, NoItems, "raise") }

IsPrompt(m) == m.role = "user" /\ m.content.len > MinPromptLen

\* What the LLM calls of every qualifying prompt of msgs are given.
inputs_of(msgs) ==
    LET prompts == extract_user_prompts(msgs) IN
    [i \in DOMAIN prompts |-> analysis_inputs(msgs, prompts[i])]

InitAnalyzer ==
    /\ InitWorkflow
    /\ st = StIdle
    /\ svc = SvcIdle
    /\ mem = MemIdle
    /\ \E msgs \in PaConversations, cut \in 0..MaxMessages :
         /\ cut = 0 \/ (cut \in DOMAIN msgs /\ IsPrompt(msgs[cut]))
         /\ cut = 0 => \A i \in DOMAIN msgs : ~IsPrompt(msgs[i])
         /\ pa = [phase |-> "used", messages |-> msgs, cut |-> cut,
                  fxs |-> <<>>, event |-> None, inputs |-> <<>>,
                  earlier |-> None, earlier_inputs |-> <<>>]

\* analyze(ev) on the whole conversation.
Analyze ==
    /\ pa.event = None
    /\ \E fxs \in [1..Len(extract_user_prompts(pa.messages)) -> PaPromptFixtures] :
          pa' = [pa EXCEPT !.fxs = fxs,
                           !.event = analyze(1, pa.messages, fxs),
                           !.inputs = inputs_of(pa.messages)]
    /\ UNCHANGED <<wfVars, svc, mem, st>>

\* analyze(ev) on the conversation as it stood after the message at the cut,
\* the LLM answering for each prompt as it did for the whole conversation.
AnalyzeEarlier ==
    /\ pa.event # None
    /\ pa.earlier = None
    /\ LET msgs == Take(pa.messages, pa.cut)
           n == Len(extract_user_prompts(msgs))
       IN pa' = [pa EXCEPT !.earlier = analyze(1, msgs, SubSeq(pa.fxs, 1, n)),
                           !.earlier_inputs = inputs_of(msgs)]
    /\ UNCHANGED <<wfVars, svc, mem, st>>

NextAnalyzer == Analyze \/ AnalyzeEarlier

SpecAnalyzer == InitAnalyzer /\ [][NextAnalyzer]_vars

(***************************************************************************)
(* Properties of the prompt analysis.                                      *)
(***************************************************************************)
AtLeastThree(suggestions) ==
    \A i \in DOMAIN suggestions :
       Len(suggestions[i].better_candidates) >= MinCandidates

NumPrompts == Len(extract_user_prompts(pa.messages))

C5_Causality ==
    (pa.event # None /\ pa.earlier # None /\ pa.cut > 0) =>
        LET n == Len(pa.earlier_inputs) IN
        pa.inputs[n] = pa.earlier_inputs[n]

\* The qualifying prompts of the analysed conversation whose own analysis
\* went through, and the position of such a prompt among them.
Analysed ==
    LET prompts == extract_user_prompts(pa.messages) IN
    { i \in DOMAIN prompts : ~analyze_prompt(prompts[i], pa.fxs[i]).omitted }

RankAnalysed(i) == Cardinality({ j \in Analysed : j <= i })

\* C11: per-prompt failure isolation.  analyze always returns its
\* PromptAnalysisEvent; a prompt whose analysis raised is the only thing
\* missing from it: every prompt whose own analysis went through has its
\* suggestion in the list, in prompt order, exactly as its own LLM answers
\* make it, whatever happened to the prompts before or after it.
C11_PerPromptIsolation ==
    pa.event # None =>
        LET prompts == extract_user_prompts(pa.messages) IN
        /\ pa.event.type = "PromptAnalysisEvent"
        /\ Len(pa.event.prompt_suggestions) = Cardinality(Analysed)
        /\ \A i \in Analysed :
              pa.event.prompt_suggestions[RankAnalysed(i)]
                 = analyze_prompt(prompts[i], pa.fxs[i]).suggestion

C11_Witness ==
    /\ pa.event # None
    /\ NumPrompts = 3
    /\ Analysed = {1, 3}
    /\ pa.fxs[2].evaluate = "raise"
    /\ Len(pa.event.prompt_suggestions) = 2
    /\ pa.event.prompt_suggestions[2].original_prompt
          = extract_user_prompts(pa.messages)[3]

\* Neither generation call of the prompt gives three usable candidates.
UnderProduces(fx) ==
    /\ fx.structured.outcome = "raise"
          \/ Len(kept_candidates(fx.structured.items)) < MinCandidates
    /\ fx.text.outcome = "raise"
          \/ Len(kept_candidates(fx.text.items)) < MinCandidates

\* Every other LLM call of the prompt answers, and the prompt is safe.
OtherCallsAnswer(fx) ==
    fx.safety = "safe" /\ fx.evaluate = "ok" /\ fx.reasoning = "ok"

\* C23: when generation under-produces for every qualifying prompt and
\* nothing else fails, the fill (second call for the shortfall, then the
\* template fallbacks) still yields one suggestion per prompt, each holding
\* exactly three candidates.
C23_FallbackFill ==
    ( /\ pa.event # None
      /\ NumPrompts > 0
      /\ \A i \in 1..NumPrompts :
            UnderProduces(pa.fxs[i]) /\ OtherCallsAnswer(pa.fxs[i]) ) =>
        /\ Len(pa.event.prompt_suggestions) = NumPrompts
        /\ \A i \in 1..NumPrompts :
              Len(pa.event.prompt_suggestions[i].better_candidates) = MinCandidates

(***************************************************************************)
(* BlogService.process_conversation (services/blog_service.py 42-299), the *)
(* entry point of the gRPC server.  It does not start the BlogWorkflow it  *)
(* holds; it calls the stages itself.  A request fixes the conversation,   *)
(* the force flag, what the repositories already hold for the file and     *)
(* whether the file parses:                                                *)
(*   stored : "none" | "other_hash" | "same_with_post" | "same_no_post"    *)
(***************************************************************************)
SvcRequests ==
    [messages : WfConversations,
     force : BOOLEAN,
     stored : {"none", "other_hash", "same_with_post", "same_no_post"},
     parse : {"ok", "raise"}]

\* The error raised at lines 295-299: the step is the literal
\* "process_conversation", the details hold the processing id and the stack
\* trace.
ProcessingError(message) ==
    [type |-> "ProcessingError", step |-> "process_conversation",
     message |-> message, details |-> {"processing_id", "stack_trace"}]

\* extract and analyze are called with ev.memory = None and put the
\* coroutine object of the un-awaited from_messages call (extractor.py 75,
\* prompt_analyzer.py 62) into the memory field of the event they build: the
\* event constructor either takes it or rejects it with a validation error.
MemoryFieldCheck == {"accepted", "rejected"}

\* Access to an attribute of a llama_index Event: declared fields and stored
\* extra data are readable, any other name raises AttributeError.
HasAttr(ev, name) == name \in DOMAIN ev

\* Line 81 with the mutated guard: the force flag is not consulted.
skips_despite_force(req) ==
    req.stored \in {"same_with_post", "same_no_post"}

\* Lines 77-81: `existing_log and not force`, where existing_log is the log
\* stored under the same file path and the same content hash.
skips(req) ==
    req.stored \in {"same_with_post", "same_no_post"} /\ ~req.force

\* Lines 68-183: hash check and skip, parse, conversation log and history.
\* started holds the steps the call has entered, log_created tells whether
\* conversation_repo.create was called (line 173).
process_conversation_begin ==
    /\ svc.phase = "idle"
    /\ \E req \in SvcRequests :
         svc' = [svc EXCEPT
            !.request = req,
            !.phase =
                IF skips(req)
                THEN "finished"
                ELSE IF req.parse = "raise" THEN "finished" ELSE "gather",
            !.history =
                IF skips(req)
                THEN "completed_skipped"
                ELSE IF req.parse = "raise" THEN "none" ELSE "processing",
            !.started = IF skips(req) THEN {} ELSE {"parse"},
            !.log_created = ~skips(req) /\ req.parse = "ok",
            !.stage =
                IF req.stored = "same_no_post" /\ ~req.force
                THEN "process_conversation"
                ELSE IF req.stored = "same_with_post" /\ ~req.force THEN "none"
                ELSE IF req.parse = "raise" THEN "parse" ELSE "none",
            !.returned =
                IF req.stored = "same_with_post" /\ ~req.force
                THEN "existing_post" ELSE "nothing",
            !.error =
                IF req.stored = "same_no_post" /\ ~req.force
                THEN ProcessingError("unchanged_no_post")
                ELSE IF req.stored = "same_with_post" /\ ~req.force THEN None
                ELSE IF req.parse = "raise" THEN ProcessingError("parse")
                ELSE None]
    /\ UNCHANGED <<wfVars, pa, mem, st>>

\* Lines 185-225 and the except clause 279-299: extraction and prompt
\* analysis are awaited together (the first exception of either ends the
\* await), then the result of the analysis is read through the attribute
\* prompt_suggestion.  stage is where the exception arose.
process_conversation_gather ==
    /\ svc.phase = "gather"
    /\ \E fx \in WfExtractorFixtures,
          fxs \in [1..Len(extract_user_prompts(svc.request.messages))
                     -> WfPromptFixtures],
          check \in MemoryFieldCheck :
         LET extracted == extract(0, svc.request.messages, fx)
             analysed == analyze(0, svc.request.messages, fxs)
             failing ==
                (IF extracted.raised \/ check = "rejected"
                 THEN {"extract"} ELSE {})
                \cup (IF /\ check = "rejected"
                         /\ extract_user_prompts(svc.request.messages) # <<>>
                      THEN {"prompt_analysis"} ELSE {})
                \cup (IF ~HasAttr(analysed, "prompt_suggestion")
                      THEN {"process_conversation"} ELSE {})
             first == IF failing \cap {"extract", "prompt_analysis"} # {}
                      THEN failing \cap {"extract", "prompt_analysis"}
                      ELSE failing
         IN \E stage \in first \cup (IF first = {} THEN {"none"} ELSE {}) :
              svc' = [svc EXCEPT
                 !.extract_event = IF "extract" \in failing THEN None
                                   ELSE extracted.event,
                 !.analysis_event = IF first \cap {"extract", "prompt_analysis"} # {}
                                    THEN None ELSE analysed,
                 !.stage = stage,
                 !.started = @ \cup {"extract", "prompt_analysis"},
                 !.phase = IF stage = "none" THEN "extend" ELSE "finished",
                 !.history = IF stage = "none" THEN @ ELSE "failed",
                 !.error = IF stage = "none" THEN None
                           ELSE ProcessingError(
                                  CASE stage = "extract" /\ extracted.raised -> "extract"
                                    [] stage = "process_conversation" -> "AttributeError"
                                    [] OTHER -> "ValidationError")]
    /\ UNCHANGED <<wfVars, pa, mem, st>>

\* The 1200 seconds a BlogWorkflow run is given go by while the stages of
\* process_conversation are being awaited.  Nothing in process_conversation
\* observes the clock.
DeadlinePasses ==
    /\ svc.phase = "gather"
    /\ ~svc.deadline_passed
    /\ svc' = [svc EXCEPT !.deadline_passed = TRUE]
    /\ UNCHANGED <<wfVars, pa, mem, st>>

InitService ==
    /\ InitWorkflow
    /\ st = StIdle
    /\ pa = PaIdle
    /\ mem = MemIdle
    /\ svc = [phase |-> "idle", request |-> None, history |-> "none",
              returned |-> "nothing", error |-> None, extract_event |-> None,
              analysis_event |-> None, deadline_passed |-> FALSE,
              stage |-> "none", started |-> {}, log_created |-> FALSE]

NextService ==
    \/ process_conversation_begin
    \/ process_conversation_gather
    \/ DeadlinePasses

SpecService == InitService /\ [][NextService]_vars

\* C6: one wall-clock timeout covers the entire pipeline run.  Once the
\* time limit has passed before a result was emitted, no stage work is still
\* in flight, the caller has received a timeout error, and nothing of a
\* result has been returned.
C6_TimeoutCoversRun ==
    svc.deadline_passed =>
        /\ svc.phase = "finished"
        /\ svc.error # None
        /\ svc.error.message = "timeout"
        /\ svc.returned = "nothing"

\* C15: every run ends in exactly one of two outcomes.  Once
\* process_conversation has returned or raised, either it returned a blog
\* post, raised nothing and the history record is 'completed', or it raised
\* one error, returned no blog post and the history record is 'failed'; the
\* record is never left 'processing'.
C15_CompleteOrFailed ==
    svc.phase = "finished" =>
        /\ svc.history # "processing"
        /\ \/ /\ svc.returned # "nothing"
              /\ svc.error = None
              /\ svc.history \in {"completed", "completed_skipped"}
           \/ /\ svc.returned = "nothing"
              /\ svc.error # None
              /\ svc.history = "failed"

\* C16: a failed run yields one error that carries the name of the step
\* that failed and its message together with the run context: the step of
\* the error raised by process_conversation is the stage in which the
\* exception arose, and its details hold the processing id and the stack
\* trace.
C16_ErrorNamesFailingStep ==
    (svc.phase = "finished" /\ svc.error # None) =>
        /\ svc.error.step = svc.stage
        /\ svc.error.message # ""
        /\ {"processing_id", "stack_trace"} \subseteq svc.error.details

(***************************************************************************)
(* Failure propagation in the workflow.                                    *)
(***************************************************************************)
ContentStageEvents == {"ExtendEvent", "ReviewEvent", "EditEvent"}
Aborted(r, stage) ==
    /\ status[r] = "failed"
    /\ cause[r] = stage
    /\ result[r] = None
    /\ editIn[r] = None
    /\ EmittedOf(r, "EditEvent") = {}

\* C7: a web search that fails once invoked is fatal.  After a failed search
\* during gap research the run has failed in extend with no ExtendEvent, and
\* after a failed search during fact-checking it has failed in review with
\* no ReviewEvent; in both cases the editor was never invoked and there is
\* no result.  A knowledge-base miss alone does not make the extend stage
\* fail.
C7_SearchFailureFatal ==
    \A r \in Runs :
       /\ "extend_search" \in incidents[r] =>
             Aborted(r, "extend") /\ EmittedOf(r, "ExtendEvent") = {}
       /\ "review_search" \in incidents[r] =>
             Aborted(r, "review") /\ EmittedOf(r, "ReviewEvent") = {}
       /\ ("kb_miss" \in incidents[r] /\ "extend_search" \notin incidents[r]) =>
             /\ cause[r] # "extend"
             /\ EmittedOf(r, "ExtendEvent") # {}

C7_Witness ==
    \E r1, r2 \in Runs :
       /\ "extend_search" \in incidents[r1]
       /\ EmittedOf(r1, "PromptAnalysisEvent") # {}
       /\ arrived[r1] = << "PromptAnalysisEvent" >>
       /\ status[r1] = "failed"
       /\ "kb_miss" \in incidents[r2]
       /\ "review_search" \in incidents[r2]
       /\ status[r2] = "failed"

CarriesWarning(res, w) ==
    \/ /\ "quality_warning" \in DOMAIN res
       /\ res.quality_warning = w
    \/ /\ "quality_warning" \in DOMAIN res.blog_post.metadata
       /\ res.blog_post.metadata.quality_warning = w

\* C17: a low-quality signal does not stop the run and is not lost.  When
\* the extractor returned an ExtractEvent with a non-empty quality_warning,
\* the run did not fail in extract, and the result of the run, once it is
\* done, carries that quality_warning.
C17_QualityWarningKept ==
    \A r \in Runs : \A e \in EmittedOf(r, "ExtractEvent") :
       e.quality_warning # "" =>
          /\ cause[r] # "extract"
          /\ status[r] = "done" => CarriesWarning(result[r], e.quality_warning)

(***************************************************************************)
(* Memory (workflows/memory_manager.py).  A fact is an identifier; the     *)
(* fact list is a sequence.  An LLM answer is "raise" or the fact list     *)
(* parsed from the response.  `flush` is what one _aput did:               *)
(*   extract, condense : "none" (not called) | "ok" | "raise"              *)
(***************************************************************************)
MaxFacts == 2
MaxPuts == 2
FactUniverse == 1..(MaxFacts + 2)

RECURSIVE SortedSeq(_)
SortedSeq(S) ==
    IF S = {} THEN <<>>
    ELSE LET x == CHOOSE y \in S : \A z \in S : y <= z
         IN <<x>> \o SortedSeq(S \ {x})

FactAnswers ==
    { [outcome |-> "ok", facts |-> SortedSeq(S)] : S \in SUBSET FactUniverse }
    \cup { [outcome |-> "raise", facts |-> <<>>] }

\* Lines 55-57: append the new facts that are not yet in the list.
RECURSIVE merge_facts(_, _)
merge_facts(facts, new) ==
    IF new = <<>> THEN facts
    ELSE merge_facts(IF Head(new) \in Range(facts) THEN facts
                     ELSE Append(facts, Head(new)),
                     Tail(new))

\* RobustFactExtractionMemoryBlock._aput(messages) with the answers ex and
\* co of its extraction and condensation calls.
aput(facts, has_messages, ex, co) ==
    IF ~has_messages
    THEN [facts |-> facts, raised |-> FALSE, extract |-> "none", condense |-> "none"]
    ELSE IF ex.outcome = "raise"
    THEN [facts |-> facts, raised |-> TRUE, extract |-> "raise", condense |-> "none"]
    ELSE LET merged == merge_facts(facts, ex.facts) IN
         IF Len(merged) > MaxFacts
         THEN IF co.outcome = "raise"
              THEN [facts |-> merged, raised |-> TRUE,
                    extract |-> "ok", condense |-> "raise"]
              ELSE [facts |-> co.facts, raised |-> FALSE,
                    extract |-> "ok", condense |-> "ok"]
         ELSE [facts |-> merged, raised |-> FALSE,
               extract |-> "ok", condense |-> "none"]

NoFlush == [extract |-> "none", condense |-> "none"]
FlushOf(a) == [extract |-> a.extract, condense |-> a.condense]

\* ConversationMemoryManager.from_messages(messages).  The constructor and
\* aput_messages run outside the try; when the short-term queue overflows,
\* aput_messages flushes the oldest messages into the fact block.  The
\* seeding _aput of lines 203-227 runs inside the try.
from_messages ==
    /\ mem.phase = "none"
    /\ \E init \in MemoryInit, empty \in BOOLEAN, overflow \in BOOLEAN,
          ex1 \in FactAnswers, co1 \in FactAnswers,
          ex2 \in FactAnswers, co2 \in FactAnswers :
         LET first == aput(<<>>, overflow, ex1, co1)
             seed == aput(first.facts, TRUE, ex2, co2)
         IN mem' =
              IF init = "raise"
              THEN [mem EXCEPT !.phase = "broken", !.raised = "init",
                               !.op = "from_messages"]
              ELSE IF empty
              THEN [mem EXCEPT !.phase = "ready", !.op = "from_messages"]
              ELSE IF first.raised
              THEN [mem EXCEPT !.phase = "broken", !.raised = "llm",
                               !.op = "from_messages", !.before = <<>>,
                               !.facts = first.facts, !.flush = FlushOf(first)]
              ELSE [mem EXCEPT !.phase = "ready", !.op = "from_messages",
                               !.before = first.facts, !.facts = seed.facts,
                               !.flush = FlushOf(seed)]
    /\ UNCHANGED <<wfVars, svc, pa, st>>

\* ConversationMemoryManager.put(message): memory.aput, which flushes into
\* the fact block when the queue overflows; nothing is caught.
put ==
    /\ mem.phase = "ready"
    /\ mem.puts < MaxPuts
    /\ \E overflow \in BOOLEAN, ex \in FactAnswers, co \in FactAnswers :
         LET a == aput(mem.facts, overflow, ex, co) IN
         mem' = [mem EXCEPT !.op = "put", !.puts = @ + 1,
                            !.before = mem.facts, !.facts = a.facts,
                            !.flush = FlushOf(a),
                            !.raised = IF a.raised THEN "llm" ELSE "no"]
    /\ UNCHANGED <<wfVars, svc, pa, st>>

InitMemory ==
    /\ InitWorkflow
    /\ st = StIdle
    /\ svc = SvcIdle
    /\ pa = PaIdle
    /\ mem = [phase |-> "none", op |-> "none", facts |-> <<>>, before |-> <<>>,
              flush |-> NoFlush, raised |-> "no", puts |-> 0]

NextMemory == from_messages \/ put

SpecMemory == InitMemory /\ [][NextMemory]_vars

FlushFailed == "raise" \in {mem.flush.extract, mem.flush.condense}

\* C8: the memory manager never raises because of an LLM failure during
\* fact extraction or condensation, in from_messages or in a later put, and
\* after a failed flush the fact list equals the list before that flush.
C8_MemoryNeverRaises ==
    /\ mem.raised # "llm"
    /\ FlushFailed => mem.facts = mem.before

\* C9: whenever a flush, its condensation step included, has finished, the
\* fact list has at most max_facts entries, whatever the extraction and
\* condensation calls returned.
C9_FactCap ==
    (mem.op # "none" /\ ~FlushFailed) => Len(mem.facts) <= MaxFacts

(***************************************************************************)
(* The stage methods called on their own.  One method is called once on    *)
(* an input and a fixture drawn from bounded sets; st records the call.    *)
(***************************************************************************)
StExtracts ==
    { [key_insights |-> 4, core_concepts |-> 6,
       filtered_content |-> << "longA", "longB" >>],
      [key_insights |-> 0, core_concepts |-> 0, filtered_content |-> <<>>] }

StExtractEvents ==
    { [type |-> "ExtractEvent", conversation_log_id |-> 1,
       content_extract |-> ce, quality_warning |-> ""] : ce \in StExtracts }

Found(sevs) == [outcome |-> "ok", found |-> sevs]
DetectorRaises == [outcome |-> "raise", found |-> <<>>]
DetectorAnswers ==
    { DetectorRaises, Found(<<>>), Found(<<"high">>), Found(<<"low", "high">>) }

MaxClaims == 2
CheckOutcomes == {"analysed", "no_sources", "llm_fail", "search_fail"}

StReviewerFixtures ==
    [logical : DetectorAnswers,
     factual : DetectorAnswers,
     unclear : DetectorAnswers,
     needs : { [outcome |-> "raise", n |-> 0] }
             \cup { [outcome |-> "ok", n |-> k] : k \in 0..MaxClaims },
     method : {"LLM", "TAVILY"},
     checks : [1..MaxClaims -> CheckOutcomes],
     suggest : { [outcome |-> "raise", n |-> 0], [outcome |-> "ok", n |-> 2] },
     uuid : {"u1"}]

\* Reviews with more claims to check than the fact check takes, the fact
\* check done by the LLM.
MaxFactClaims == 6

StFactCheckFixtures ==
    [logical : {NoneFound},
     factual : {NoneFound},
     unclear : {NoneFound},
     needs : { [outcome |-> "ok", n |-> k] : k \in 0..MaxFactClaims },
     method : {"LLM"},
     checks : [1..MaxFactClaims -> {"analysed", "llm_fail"}],
     suggest : { [outcome |-> "ok", n |-> 2] },
     uuid : {"u1"}]

\* The reviews whose events are given to the editor: every combination of
\* the three escalation conditions, the fact check done by the LLM.
StEscalationFixtures ==
    [logical : { Found(<<"low">>), Found(<<"low", "high">>) },
     factual : { Found(<<>>), Found(<<"high">>) },
     unclear : { Found(<<"low">>) },
     needs : { [outcome |-> "ok", n |-> 0], [outcome |-> "ok", n |-> MaxClaims] },
     method : {"LLM"},
     checks : { [i \in 1..MaxClaims |-> "analysed"] },
     suggest : { [outcome |-> "ok", n |-> 2] },
     uuid : {"u1"}]

StSuggestionLists ==
    { <<>>,
      << [original_prompt |-> "longA", better_candidates |-> ThreeItems,
          kind |-> "optimised"] >> }

\* The ReviewEvent as edit_step hands it to the editor (lines 118-125).
StReviewEvents ==
    { [review(ev, fx).event EXCEPT !.prompt_suggestions = ps] :
         ev \in StExtractEvents, fx \in StEscalationFixtures,
         ps \in StSuggestionLists }

Tiers == { Tier(s, t, e) : s \in {"ok", "raise"}, t \in {"json", "raw", "raise"},
                           e \in BOOLEAN }

StEditorFixtures ==
    [factory : {"ok", "raise"},
     content : {"ok", "raise"},
     title : Tiers,
     summary : Tiers]

StConversations ==
    WfConversations
    \cup { << Msg("user", "longA") >>,
           << Msg("user", "thanks"), Msg("assistant", "longB"),
              Msg("user", "longA") >>,
           << Msg("user", "thanks"), Msg("assistant", "thanks"),
              Msg("user", "q12"), Msg("assistant", "thanks") >> }

ListLengths == {0, 1, 3, 7, 12}

StExtractorFixtures ==
    [substantive : {"YES", "NO", "raise"},
     structured : {"ok", "raise", "unsupported"},
     analysis : [key_insights : ListLengths, core_concepts : ListLengths,
                 substantive_score : {2, 7}],
     insights : { Lines(n) : n \in ListLengths } \cup {Raise},
     concepts : { Lines(n) : n \in ListLengths } \cup {Raise}]

StGaps ==
    { Gap("ok", <<Good>>, "ok", <<>>),
      Gap("ok", <<>>, "ok", <<Good>>),
      Gap("ok", <<>>, "ok", <<Bad>>),
      Gap("ok", <<>>, "ok", <<NullTitle>>),
      Gap("error", <<>>, "ok", <<Good>>),
      Gap("error", <<>>, "fail", <<>>),
      Gap("ok", <<Good>>, "fail", <<>>),
      Gap("ok", <<>>, "ok", <<Bad, Good>>),
      Gap("ok", <<>>, "ok", <<Good, Good, Good>>),
      [Gap("ok", <<Good>>, "ok", <<>>) EXCEPT !.query = FALSE] }

MaxGaps == 2

StExtenderFixtures ==
    [identify : {"ok", "raise"},
     gaps : UNION { [1..n -> StGaps] : n \in 0..MaxGaps },
     integrate : {"ok", "raise"}]

(***************************************************************************)
(* MemoryService.extract_facts (services/memory.py).  Strings are          *)
(* sequences of characters here, since the method slices them.             *)
(***************************************************************************)
RoleUser == <<"u", "s", "e", "r">>
RoleAssistant == <<"a", "s", "s", "i", "s", "t", "a", "n", "t">>
RoleSystem == <<"s", "y", "s", "t", "e", "m">>

Upper(c) ==
    CASE c = "u" -> "U" [] c = "a" -> "A" [] c = "s" -> "S" [] c = "y" -> "Y"
      [] OTHER -> c

Lower(c) ==
    CASE c = "U" -> "u" [] c = "A" -> "a" [] c = "S" -> "s" [] c = "Y" -> "y"
      [] OTHER -> c

\* str.capitalize(): first character upper case, the rest lower case
capitalize(s) ==
    [i \in 1..Len(s) |-> IF i = 1 THEN Upper(s[i]) ELSE Lower(s[i])]

RECURSIVE join(_, _)
join(sep, parts) ==
    IF parts = <<>> THEN <<>>
    ELSE IF Len(parts) = 1 THEN parts[1]
    ELSE parts[1] \o sep \o join(sep, Tail(parts))

\* "\n\n".join(f"{msg.role.capitalize()}: {msg.content}" for the messages
\* whose role is not "system")
text_content(msgs) ==
    LET spoken == SelectSeq(msgs, LAMBDA m : m.role # RoleSystem) IN
    join(<<"\n", "\n">>,
         [i \in 1..Len(spoken) |->
             capitalize(spoken[i].role) \o <<":", " ">> \o spoken[i].content])

\* The fallback without the slice.
extract_facts_untruncated(msgs, max_characters, fx) ==
    IF msgs = <<>> THEN <<>>
    ELSE IF fx.outcome = "raise" THEN text_content(msgs)
    ELSE Take(fx.response, max_characters)

\* fx.outcome: "raise" when Document, SummaryIndex.from_documents,
\* as_query_engine or aquery raises; otherwise fx.response is str(response).
\* Outside the try are only the early return and the join, which read the
\* validated fields role and content.  s[:n] is Take(s, n) for n >= 0.
extract_facts(msgs, max_characters, fx) ==
    IF msgs = <<>> THEN <<>>
    ELSE LET text == text_content(msgs) IN
         IF fx.outcome = "raise" THEN Take(text, max_characters)
         ELSE IF Len(fx.response) > max_characters
              THEN Take(fx.response, max_characters)
              ELSE fx.response

MaxFactMessages == 2
MaxContentLen == 2

FactContents == UNION { [1..n -> {"x", "Y"}] : n \in 0..MaxContentLen }

FactMessages ==
    UNION { [1..n -> [role : {RoleUser, RoleAssistant, RoleSystem},
                      content : FactContents]] : n \in 0..MaxFactMessages }

\* max_characters, a count of characters
FactLimits == {0, 3, 7, 12, 30}

SummarizerAnswers ==
    { [outcome |-> "raise", response |-> <<>>] }
    \cup { [outcome |-> "ok", response |-> r] :
              r \in { <<>>, <<"-", "x">>,
                      <<"-", "x", "\n", "-", "Y", "\n", "-", "x", "Y">> } }

\* again: the outcome of calling the same stage object a second time on the
\* same input, None until it is called again.
Call(op, input, fx, out) ==
    [op |-> op, input |-> input, fx |-> fx, out |-> out, again |-> None]

\* reviewer.review(ev)
RunReview ==
    /\ st.op = "none"
    /\ \E ev \in StExtractEvents,
          fx \in StReviewerFixtures \cup StFactCheckFixtures :
          st' = Call("review", ev, fx, review(ev, fx))
    /\ UNCHANGED <<wfVars, svc, pa, mem>>

\* extractor.extract(ev)
RunExtract ==
    /\ st.op = "none"
    /\ \E msgs \in StConversations, fx \in StExtractorFixtures :
          st' = Call("extract", msgs, fx, extract(1, msgs, fx))
    /\ UNCHANGED <<wfVars, svc, pa, mem>>

\* extender.extend(ev)
RunExtend ==
    /\ st.op = "none"
    /\ \E ev \in StExtractEvents, fx \in StExtenderFixtures :
          st' = Call("extend", ev, fx, extend(ev, fx))
    /\ UNCHANGED <<wfVars, svc, pa, mem>>

\* editor.edit(review_ev)
RunEdit ==
    /\ st.op = "none"
    /\ \E ev \in StReviewEvents, fx \in StEditorFixtures :
          st' = Call("edit", ev, fx, edit(ev, fx))
    /\ UNCHANGED <<wfVars, svc, pa, mem>>

\* The lists a PromptAnalysisEvent brings to the join.
Suggestion(prompt) ==
    [original_prompt |-> prompt, better_candidates |-> ThreeItems,
     kind |-> "optimised"]

StAnalysisLists ==
    StSuggestionLists
    \cup { << Suggestion("q12"), Suggestion("longA") >>,
           << Suggestion("longA"), Suggestion("q12") >> }

\* edit_step on the two events of one run, in either arrival order, then
\* finalize_step on the EditEvent.  input.review is the ReviewEvent as the
\* review branch emitted it, with whatever prompt_suggestions it holds.
RunJoin ==
    /\ st.op = "none"
    /\ \E rev \in StReviewEvents, ps \in StAnalysisLists,
          first \in Range(JoinTypes), fx \in WfEditorFixtures :
          LET pev == [type |-> "PromptAnalysisEvent",
                      conversation_log_id |-> rev.conversation_log_id,
                      prompt_suggestions |-> ps]
              one == IF first = "ReviewEvent" THEN rev ELSE pev
              two == IF first = "ReviewEvent" THEN pev ELSE rev
              got1 == collect_events(EmptyBuffer, one, JoinTypes)
              got2 == collect_events(got1.buffer, two, JoinTypes)
              edited == edit(join_events(got2.results), fx)
          IN st' = Call("join",
                        [review |-> rev, analysis |-> pev, first |-> first], fx,
                        [raised |-> edited.raised,
                         early |-> got1.results # <<>>,
                         event |-> IF edited.raised THEN None
                                   ELSE finalize(edited.event)])
    /\ UNCHANGED <<wfVars, svc, pa, mem>>

\* MemoryService().extract_facts(messages, max_characters)
RunExtractFacts ==
    /\ st.op = "none"
    /\ \E msgs \in FactMessages, limit \in FactLimits, fx \in SummarizerAnswers :
          st' = Call("extract_facts",
                     [messages |-> msgs, max_characters |-> limit], fx,
                     [raised |-> FALSE,
                      value |-> extract_facts(msgs, limit, fx)])
    /\ UNCHANGED <<wfVars, svc, pa, mem>>

\* The same extractor or reviewer object is called a second time on the
\* same event; the model answers as in the first call.  The stage objects
\* keep only llm and the services between calls; uuid4() answers anew.
RunAgain ==
    /\ st.op \in {"extract", "review"}
    /\ st.again = None
    /\ \E u \in UUIDs :
          st' = [st EXCEPT !.again =
                     IF st.op = "extract"
                     THEN extract(1, st.input, st.fx)
                     ELSE review(st.input, [st.fx EXCEPT !.uuid = u])]
    /\ UNCHANGED <<wfVars, svc, pa, mem>>

InitStages ==
    /\ InitWorkflow
    /\ svc = SvcIdle
    /\ pa = PaIdle
    /\ mem = MemIdle
    /\ st = Call("none", None, None, None)

NextStages ==
    \/ RunExtract
    \/ RunExtend
    \/ RunReview
    \/ RunEdit
    \/ RunAgain
    \/ RunExtractFacts
    \/ RunJoin

SpecStages == InitStages /\ [][NextStages]_vars

(***************************************************************************)
(* Properties of the single stages.                                        *)
(***************************************************************************)
Detectors == {"logical", "factual", "unclear"}

IssueKey(d) ==
    CASE d = "logical" -> "logical_gaps"
      [] d = "factual" -> "factual_inconsistencies"
      [] d = "unclear" -> "unclear_explanations"

\* A search provider failed during the fact check of this review.
ReviewSearchFailed(fx) ==
    /\ fx.method = "TAVILY"
    /\ \E i \in 1..Min(detect_fact_checking_needs(fx), MaxFactChecks) :
          fx.checks[i] = "search_fail"

\* C12: the three detectors of the reviewer are failure-tolerant one by
\* one.  Unless a search provider failed during fact checking, the review
\* returns its ReviewEvent, and in it a detector that failed has an empty
\* list while every detector that answered has exactly its findings,
\* whatever the other two did.
C12_DetectorsIndependent ==
    (st.op = "review" /\ ~ReviewSearchFailed(st.fx)) =>
        /\ ~st.out.raised
        /\ st.out.event.type = "ReviewEvent"
        /\ \A d \in Detectors :
              st.out.event.review_findings.issues[IssueKey(d)]
                 = IF st.fx[d].outcome = "raise" THEN <<>> ELSE st.fx[d].found

C12_Witness ==
    /\ st.op = "review"
    /\ st.fx.factual.outcome = "raise"
    /\ st.fx.logical = Found(<<"high">>)
    /\ st.fx.unclear = Found(<<"low", "high">>)
    /\ ~st.out.raised
    /\ st.out.event.review_findings.issues.factual_inconsistencies = <<>>
    /\ st.out.event.review_findings.issues.logical_gaps = <<"high">>

HasKind(errors, kind) == \E i \in DOMAIN errors : errors[i].kind = kind

\* The rule-based pass gave one escalation for each condition that holds of
\* the findings.
Escalated(findings, errors) ==
    /\ HasHigh(findings.issues.logical_gaps) => HasKind(errors, "high_logical_gaps")
    /\ HasHigh(findings.issues.factual_inconsistencies)
          => HasKind(errors, "high_factual_inconsistencies")
    /\ findings.fact_checking_needs > 0 => HasKind(errors, "fact_check_needed")

\* C13: escalations are data in the result and are never dropped.  A review
\* that returns has, in the errors of its ReviewEvent, an escalation for a
\* high-severity logical gap, for a high-severity factual inconsistency and
\* for a non-empty fact_checking_needs, each whenever its condition holds;
\* and the blog post the editor builds from a ReviewEvent carries exactly
\* those errors, unchanged and in order, as metadata.review_errors.
C13_EscalationsKept ==
    /\ (st.op = "review" /\ ~st.out.raised) =>
          Escalated(st.out.event.review_findings, st.out.event.errors)
    /\ (st.op = "edit" /\ ~st.out.raised) =>
          /\ st.out.event.blog_post.metadata.review_errors = st.input.errors
          /\ Escalated(st.input.review_findings,
                       st.out.event.blog_post.metadata.review_errors)

C13_Witness ==
    /\ st.op = "edit"
    /\ ~st.out.raised
    /\ HasHigh(st.input.review_findings.issues.logical_gaps)
    /\ HasHigh(st.input.review_findings.issues.factual_inconsistencies)
    /\ st.input.review_findings.fact_checking_needs = MaxClaims
    /\ Len(st.out.event.blog_post.metadata.review_errors) = 3

\* C14: title and summary generation is never a hard failure.  Whatever
\* the structured call, the JSON-in-text completion and its parsing did, the
\* call of the editor returned an EditEvent whose blog post has a non-empty
\* title and a non-empty summary.
C14_TitleSummaryNeverFail ==
    st.op = "edit" =>
        /\ ~st.out.raised
        /\ st.out.event.type = "EditEvent"
        /\ st.out.event.blog_post.title # ""
        /\ st.out.event.blog_post.summary # ""

\* C19: a ContentExtract the extractor produced for a conversation with
\* substantive content has between 3 and 5 key insights and between 3 and
\* 10 core concepts, on the structured path and on the text fallback,
\* whatever list lengths the LLM returned.
C19_ExtractListBounds ==
    (st.op = "extract" /\ ~st.out.raised /\ st.out.path # "minimal") =>
        LET ce == st.out.event.content_extract IN
        /\ 3 <= ce.key_insights /\ ce.key_insights <= MaxInsights
        /\ 3 <= ce.core_concepts /\ ce.core_concepts <= MaxConcepts

\* C20: the extender degrades gracefully.  Whenever an exception other than
\* a failed web search occurred inside extend(), and no web search failed,
\* the call returned an ExtendEvent whose content_extract is the one it was
\* given.
C20_ExtenderDegrades ==
    ( /\ st.op = "extend"
      /\ extend_exceptions(st.fx) # {}
      /\ ~st.out.searchFailed ) =>
        /\ ~st.out.raised
        /\ st.out.event.type = "ExtendEvent"
        /\ st.out.event.content_extract = st.input.content_extract

(***************************************************************************)
(* Two calls on the same input with the same model and search answers.     *)
(***************************************************************************)
\* C18: with fixed model and search answers, a second run on the same
\* messages yields the same ContentExtract and the same ReviewFindings as
\* the first: both calls end alike and their events are equal.
C18_SecondRunIdentical ==
    (st.op \in {"extract", "review"} /\ st.again # None) => st.again = st.out

(***************************************************************************)
(* MemoryService.extract_facts.                                            *)
(***************************************************************************)
IsPrefixOfLen(v, full, n) ==
    /\ Len(v) = Min(n, Len(full))
    /\ \A i \in 1..Len(v) : v[i] = full[i]

Has(r, t) == EmittedOf(r, t) # {}

\* The event type a step is started with.
StartedBy(step) ==
    CASE step = "extend_step"   -> {"ExtractEvent"}
      [] step = "review_step"   -> {"ExtendEvent"}
      [] step = "edit_step"     -> {"ReviewEvent", "PromptAnalysisEvent"}
      [] step = "finalize_step" -> {"EditEvent"}
      [] OTHER                  -> {"BlogWorkflowStartEvent"}

\* C22: within one run a stage starts only on the event of the stage before
\* it: extend on the emitted ExtractEvent, review on the emitted ExtendEvent,
\* the editor only after both the ReviewEvent and the PromptAnalysisEvent
\* were emitted, the result only after the EditEvent; prompt analysis is
\* startable from the start event whatever the other branch has done, and
\* the editor runs at most once per run.
C22_StageGraph ==
    \A r \in Runs :
       /\ \A item \in pending[r] :
             /\ item.ev.type \in StartedBy(item.step)
             /\ item.step \notin {"extract_step", "prompt_analysis_step"} =>
                   item.ev \in emitted[r]
       /\ Has(r, "ExtendEvent") => Has(r, "ExtractEvent")
       /\ Has(r, "ReviewEvent") => Has(r, "ExtendEvent")
       /\ editIn[r] # None =>
             Has(r, "ReviewEvent") /\ Has(r, "PromptAnalysisEvent")
       /\ Has(r, "EditEvent") => editIn[r] # None
       /\ result[r] # None => Has(r, "EditEvent")
       /\ (status[r] = "running" /\ ~Has(r, "PromptAnalysisEvent")) =>
             \E item \in pending[r] :
                /\ item.step = "prompt_analysis_step"
                /\ item.ev.type = "BlogWorkflowStartEvent"
       /\ Len(arrived[r]) <= 2
       /\ editIn[r] # None => Len(arrived[r]) = 2
       /\ Cardinality(EmittedOf(r, "EditEvent")) <= 1

\* Prompt analysis has finished before extraction, and in the other run the
\* whole chain has run and the result is out.
C22_Witness ==
    \E r, q \in Runs :
       /\ Has(r, "PromptAnalysisEvent") /\ ~Has(r, "ExtractEvent")
       /\ status[r] = "running"
       /\ result[q] # None
       /\ arrived[q] = << "PromptAnalysisEvent", "ReviewEvent" >>

(***************************************************************************)
(* Research of the knowledge gaps.                                         *)
(***************************************************************************)
\* The knowledge base had nothing for the gap: no result or a failed query.
KbEmpty(gap) == gap.kb.outcome = "error" \/ gap.kb.results = <<>>

\* The web search of gap j failed, which ends the research.
WebFailedAt(gaps, j) ==
    gaps[j].query /\ KbEmpty(gaps[j]) /\ gaps[j].web.outcome = "fail"

\* C24: every researched gap has the knowledge base queried first, and the
\* web search is called for it exactly when the knowledge base gave no
\* result (an error included); the gaps are researched in order, those
\* without a query are skipped.
C24_KbBeforeWeb ==
    st.op = "extend" =>
        LET gaps == identify_knowledge_gaps(st.fx)
            calls == st.out.calls
        IN  /\ \A k \in DOMAIN calls :
                  /\ calls[k].gap \in DOMAIN gaps
                  /\ gaps[calls[k].gap].query
                  /\ calls[k].providers[1] = "knowledge_base"
                  /\ Len(calls[k].providers) <= 2
                  /\ ("tavily" \in Range(calls[k].providers))
                        = KbEmpty(gaps[calls[k].gap])
                  /\ \A l \in DOMAIN calls : k < l => calls[k].gap < calls[l].gap
            /\ \A i \in DOMAIN gaps :
                  ( /\ gaps[i].query
                    /\ \A j \in 1..(i - 1) : ~WebFailedAt(gaps, j) ) =>
                      \E k \in DOMAIN calls : calls[k].gap = i

\* The knowledge base answered the first gap, whose web search would have
\* failed, and had nothing for the second, which was searched on the web.
C24_Witness ==
    /\ st.op = "extend"
    /\ st.fx.identify = "ok"
    /\ st.fx.gaps = << Gap("ok", <<Good>>, "fail", <<>>),
                       Gap("error", <<>>, "ok", <<Good>>) >>
    /\ ~st.out.raised
    /\ st.out.calls[1].providers = << "knowledge_base" >>
    /\ st.out.calls[2].providers = << "knowledge_base", "tavily" >>

(***************************************************************************)
(* Filtering of the research results before integration.                   *)
(***************************************************************************)
\* The results of researched gap k that pass the quality heuristics.
Survivors(research, k) == SelectSeq(research[k].results, LAMBDA r : r.good)

\* The research results extend() obtained for its fixture.
ResearchOf(fx) == research_gaps(identify_knowledge_gaps(fx)).results

\* C25: filtering is per result and per gap.  Whenever the research of an
\* extend() went through, a researched gap without a surviving result is
\* absent from the integration and every gap with a surviving result is
\* integrated with exactly its surviving results; the integration call is
\* skipped, and the content returned as it was, only when no gap survives.
C25_FilterPerGap ==
    ( /\ st.op = "extend"
      /\ ~research_gaps(identify_knowledge_gaps(st.fx)).raised ) =>
        LET research == ResearchOf(st.fx)
            alive == { k \in DOMAIN research : Survivors(research, k) # <<>> }
        IN  /\ ~st.out.raised
            /\ { c.gap : c \in Range(st.out.integration.context) }
                  = { research[k].gap : k \in alive }
            /\ \A k \in alive : \E c \in Range(st.out.integration.context) :
                  c.gap = research[k].gap /\ c.results = Survivors(research, k)
            /\ st.out.integration.called = (alive # {})
            /\ alive = {} =>
                  st.out.event.content_extract = st.input.content_extract

(***************************************************************************)
(* The fact check done by the LLM.                                         *)
(***************************************************************************)
\* C26: with FACT_CHECK_METHOD = LLM the review never fails because of the
\* fact check and holds one result for each of the first five claims that
\* need checking, in order (none when there is no such claim); the result
\* of a claim is the "check failed" placeholder exactly when the LLM call
\* for that claim failed.
C26_LlmFactCheckPerClaim ==
    (st.op = "review" /\ st.fx.method = "LLM") =>
        /\ ~st.out.raised
        /\ LET n == st.out.event.review_findings.fact_checking_needs
               results == st.out.event.review_findings.issues.fact_check_results
           IN  /\ n = (IF st.fx.needs.outcome = "raise" THEN 0 ELSE st.fx.needs.n)
               /\ Len(results) = Min(n, MaxFactChecks)
               /\ \A i \in DOMAIN results :
                     (results[i] = "check_failed") = (st.fx.checks[i] = "llm_fail")

\* Six claims need checking; the LLM call fails for the second and the sixth.
C26_Witness ==
    /\ st.op = "review"
    /\ st.fx.method = "LLM"
    /\ st.fx.needs.n = 6
    /\ st.fx.checks = <<"analysed", "llm_fail", "analysed", "analysed",
                        "analysed", "llm_fail">>
    /\ st.out.event.review_findings.issues.fact_check_results
          = <<"analysed", "check_failed", "analysed", "analysed", "analysed">>

(***************************************************************************)
(* PromptAnalyzer.analyze step by step (prompt_analyzer.py 76-189): every  *)
(* awaited call of the loop body is one step.  pa.pos gives, per           *)
(* qualifying prompt, 0 before its analysis has started, k while its k-th  *)
(* sub-step is the next to run, and Finished after its loop iteration      *)
(* ended (with a suggestion, or omitted).                                  *)
(***************************************************************************)
SubSteps == << "safety", "evaluate", "generate", "reasoning", "effect" >>
Finished == Len(SubSteps) + 1

MaxStepPrompts == 3

StepPrompt == "q12"

\* The sub-step at which the loop iteration of a prompt ends: the safety check
\* for a flagged prompt (continue, line 128), the call that raised, else the
\* last one.
EndsAt(fx) ==
    LET one == analyze_prompt(StepPrompt, fx) IN
    IF SafetyFlagged(fx) THEN "safety"
    ELSE IF ~one.omitted THEN "effect"
    ELSE CASE one.path = "evaluate" -> "evaluate"
           [] one.path \in {"structured", "text", "fallback"} -> "generate"
           [] one.path = "reasoning" -> "reasoning"
           [] OTHER -> "effect"

\* The for loop reaches prompt j: it is the first, or the iteration of the
\* prompt before it has ended.
StartPromptAnalysis(j) ==
    /\ pa.phase = "steps"
    /\ j \in 1..pa.prompts
    /\ pa.pos[j] = 0
    /\ IF j = 1 THEN TRUE ELSE pa.pos[j - 1] = Finished
    /\ pa' = [pa EXCEPT !.pos[j] = 1]
    /\ UNCHANGED <<wfVars, svc, mem, st>>

\* The next awaited call of the iteration of prompt j returns or raises.
SubStep(j) ==
    /\ pa.phase = "steps"
    /\ j \in 1..pa.prompts
    /\ pa.pos[j] \in 1..Len(SubSteps)
    /\ pa' = [pa EXCEPT
                 !.pos[j] = IF SubSteps[@] = EndsAt(pa.fxs[j]) THEN Finished ELSE @ + 1,
                 !.log = Append(@, [prompt |-> j, step |-> SubSteps[pa.pos[j]]])]
    /\ UNCHANGED <<wfVars, svc, mem, st>>

\* The loop is over: analyze returns its event.
ReturnAnalysis ==
    /\ pa.phase = "steps"
    /\ pa.event = None
    /\ \A j \in 1..pa.prompts : pa.pos[j] = Finished
    /\ pa' = [pa EXCEPT !.event =
                 analyze(1, [j \in 1..pa.prompts |-> Msg("user", StepPrompt)], pa.fxs)]
    /\ UNCHANGED <<wfVars, svc, mem, st>>

InitPromptSteps ==
    /\ InitWorkflow
    /\ st = StIdle
    /\ svc = SvcIdle
    /\ mem = MemIdle
    /\ \E n \in 1..MaxStepPrompts : \E fxs \in [1..n -> PaPromptFixtures] :
          pa = [phase |-> "steps", prompts |-> n, fxs |-> fxs,
                pos |-> [j \in 1..n |-> 0], log |-> <<>>, event |-> None]

NextPromptSteps ==
    \/ \E j \in 1..MaxStepPrompts : StartPromptAnalysis(j)
    \/ \E j \in 1..MaxStepPrompts : SubStep(j)
    \/ ReturnAnalysis

SpecPromptSteps == InitPromptSteps /\ [][NextPromptSteps]_vars

\* The sub-steps logged for prompt j, in log order.
StepsOf(j) ==
    LET mine == SelectSeq(pa.log, LAMBDA e : e.prompt = j) IN
    [k \in DOMAIN mine |-> mine[k].step]

\* C27: the analyses of different prompts fan out: while the analysis of one
\* prompt is under way, the analysis of any sibling that has not started can
\* start; and the sub-steps of one prompt run in their fixed sequence.
C27_FanOut ==
    pa.phase = "steps" =>
        /\ \A i, j \in 1..pa.prompts :
              (i # j /\ pa.pos[i] \in 1..Len(SubSteps) /\ pa.pos[j] = 0) =>
                 ENABLED StartPromptAnalysis(j)
        /\ \A j \in 1..pa.prompts :
              StepsOf(j) = SubSeq(SubSteps, 1, Len(StepsOf(j)))

(***************************************************************************)
(* The noise filter of the extractor.                                      *)
(***************************************************************************)
IsNoise(m) ==
    \/ m.content.len < MinMessageLen
    \/ m.content.noise /\ m.content.len < NoisePatternMaxLen

\* C28: the noise filter drops only short or greeting messages, and it
\* never takes a conversation that reaches the minimum substantive length
\* below it: such a conversation is not turned into the minimal extract by
\* the filtering when the substantive check answers YES.
C28_FilterKeepsThreshold ==
    st.op = "extract" =>
        LET kept == filter_noise(st.input) IN
        /\ kept = SelectSeq(st.input, LAMBDA m : ~IsNoise(m))
        /\ SumLen(st.input) >= MinSubstantiveTotal =>
              /\ SumLen(kept) >= MinSubstantiveTotal
              /\ st.fx.substantive = "YES" => st.out.path # "minimal"

(***************************************************************************)
(* The prompt suggestions on their way through the join.                   *)
(***************************************************************************)
\* C29: the prompt suggestions of the result are the list of the run's
\* PromptAnalysisEvent, element by element in the same order, whichever
\* event arrived first and whatever list the ReviewEvent held before.
C29_SuggestionsPassThrough ==
    (st.op = "join" /\ ~st.out.raised) =>
        /\ st.out.event.type = "BlogWorkflowStopEvent"
        /\ Len(st.out.event.prompt_suggestions)
              = Len(st.input.analysis.prompt_suggestions)
        /\ \A i \in DOMAIN st.input.analysis.prompt_suggestions :
              st.out.event.prompt_suggestions[i]
                 = st.input.analysis.prompt_suggestions[i]

\* Two suggestions reach the result in their order although the ReviewEvent
\* arrived first with another list.
C29_Witness ==
    /\ st.op = "join"
    /\ ~st.out.raised
    /\ st.input.first = "ReviewEvent"
    /\ Len(st.input.review.prompt_suggestions) = 1
    /\ st.input.analysis.prompt_suggestions
          = << Suggestion("q12"), Suggestion("longA") >>
    /\ st.out.event.prompt_suggestions[1].original_prompt = "q12"
    /\ st.out.event.prompt_suggestions[2].original_prompt = "longA"

\* The request names a file whose path and content hash are already stored.
SameHashStored(req) == req.stored \in {"same_with_post", "same_no_post"}

====
